---- MODULE Spec2Model ----
(***************************************************************************)
(* Model of the xcash-inverite correlation-and-retry pipeline:             *)
(*   formidable_receiver.py  the Flask handlers (verification webhook,     *)
(*                           forwarded notifications, loan form) and the   *)
(*                           pending-queue upsert;                         *)
(*   process_pending.py      the drain cycle, the lock, the ledger append; *)
(*   inverite_data.py        report fetch and text conversion;             *)
(*   loan_analyzer.py        the decision call.                            *)
(* The three stores are files: notification_log.txt (JSON lines),          *)
(* pending_queue.json and payday_loan_decisions.json (JSON lists).  Both   *)
(* programs are taken to run in the same directory, so that the relative   *)
(* paths of formidable_receiver.py and the BASE_DIR paths of               *)
(* process_pending.py name the same files.                                 *)
(*                                                                         *)
(* Text is a sequence of one-character strings, so that lower(), strip()   *)
(* and the substring test are computed and not assumed.                    *)
(***************************************************************************)
EXTENDS Integers, Sequences, FiniteSets, TLC

VARIABLES
    now,        \* the wall clock at the resolution of strftime("%Y-%m-%d %H:%M:%S")
    log,        \* notification_log.txt: the sequence of its lines
    queueFile,  \* pending_queue.json
    ledgerFile, \* payday_loan_decisions.json
    lock,       \* payday_loan_decisions.json.lock: who created it, or "free"
    web,        \* the Flask request threads (app.run(threaded=True))
    drain,      \* the running process_pending.py processes
    probe       \* the last direct call of a lookup function and its outcome

vars == <<now, log, queueFile, ledgerFile, lock, web, drain, probe>>

-----------------------------------------------------------------------------
(* Bounds of the model *)

MaxTime == 1
MaxLog == 2
MaxLedger == 2
MaxCycles == 2

(* Program constants *)

LookupAttempts == 10
ConvertTargets == 2
AnalyzeParams == 2
DrainAnalyzeArgs == 3
WebAnalyzeArgs == 2

-----------------------------------------------------------------------------
(* Text *)

LowerLetters == <<"a", "b", "c", "d", "e", "f", "g", "h", "i", "j", "k", "l", "m",
                  "n", "o", "p", "q", "r", "s", "t", "u", "v", "w", "x", "y", "z">>
UpperLetters == <<"A", "B", "C", "D", "E", "F", "G", "H", "I", "J", "K", "L", "M",
                  "N", "O", "P", "Q", "R", "S", "T", "U", "V", "W", "X", "Y", "Z">>

LowerChar(c) ==
    IF \E i \in 1..26 : UpperLetters[i] = c
    THEN LowerLetters[CHOOSE i \in 1..26 : UpperLetters[i] = c]
    ELSE c

Lower(s) == [i \in 1..Len(s) |-> LowerChar(s[i])]

IsSpace(c) == c = " "

RECURSIVE LStrip(_)
LStrip(s) == IF s # <<>> /\ IsSpace(Head(s)) THEN LStrip(Tail(s)) ELSE s

RECURSIVE RStrip(_)
RStrip(s) ==
    IF s # <<>> /\ IsSpace(s[Len(s)]) THEN RStrip(SubSeq(s, 1, Len(s) - 1)) ELSE s

Strip(s) == RStrip(LStrip(s))

\* Python's `sub in s` on str
Contains(sub, s) ==
    \E i \in 0..(Len(s) - Len(sub)) : SubSeq(s, i + 1, i + Len(sub)) = sub

-----------------------------------------------------------------------------
(* JSON values as the handlers see them: a str, null (None), or a key that  *)
(* is absent from the object.                                               *)

Str(s) == [t |-> "str", s |-> s]
Null == [t |-> "null", s |-> <<>>]
Missing == [t |-> "missing", s |-> <<>>]

\* Python truthiness of dict.get(key): None and "" are falsy
Truthy(v) == v.t = "str" /\ v.s # <<>>

\* dict.get(key): an absent key reads as None
Get(v) == IF v.t = "missing" THEN Null ELSE v

\* dict.get(key, ""): an absent key reads as "", a null value stays None
GetOrEmpty(v) == IF v.t = "missing" THEN Str(<<>>) ELSE v

\* (x or "")
OrEmpty(v) == IF Truthy(v) THEN v ELSE Str(<<>>)

(* A line of notification_log.txt.  json is "object" for a JSON object,     *)
(* "array" for a JSON value that parses but is no object, "invalid" for     *)
(* text json.loads rejects.                                                 *)
LogObject(g, n, s) == [json |-> "object", guid |-> g, name |-> n, status |-> s]
LogArray == [json |-> "array", guid |-> Missing, name |-> Missing, status |-> Missing]
LogInvalid == [json |-> "invalid", guid |-> Missing, name |-> Missing, status |-> Missing]

(* The outcome of a call: a returned value or a raised exception *)
Return(v) == [exc |-> "none", val |-> v]
Raise(e) == [exc |-> e, val |-> Null]

-----------------------------------------------------------------------------
(* The text used by the model *)

T_verified == <<"v", "e", "r", "i", "f", "i", "e", "d">>
T_Verified == <<"V", "e", "r", "i", "f", "i", "e", "d">>
T_pending == <<"p", "e", "n", "d", "i", "n", "g">>
T_Jane == <<"J", "a", "n", "e">>
T_JANE_sp == <<"J", "A", "N", "E", " ">>
T_Doe == <<"D", "o", "e">>
T_Roe == <<"R", "o", "e">>
T_JaneMDoe == <<"J", "a", "n", "e", " ", "M", " ", "D", "o", "e">>
T_JANEROE == <<"J", "A", "N", "E", " ", "R", "O", "E">>
T_payday == <<"p", "a", "y", "d", "a", "y">>
T_Payday == <<"P", "a", "y", "d", "a", "y">>
T_G1 == <<"G", "1">>
T_G2 == <<"G", "2">>

-----------------------------------------------------------------------------
(* Correlation log lookups *)

\* the match test of both lookups, on lower-cased text
NameMatches(fn, ln, name, status) ==
    Contains(fn, name) /\ Contains(ln, name) /\ status = T_verified

RECURSIVE ScanNotifications(_, _, _, _)
ScanNotifications(lines, i, fn, ln) ==
    IF i > Len(lines) THEN Return(Null)
    ELSE LET line == lines[i] IN
        IF line.json = "invalid" THEN ScanNotifications(lines, i + 1, fn, ln)
        ELSE IF line.json # "object" THEN Raise("AttributeError")
        ELSE LET name == Lower(OrEmpty(Get(line.name)).s)
                 status == Lower(OrEmpty(Get(line.status)).s)
             IN  IF NameMatches(fn, ln, name, status)
                 THEN Return(Get(line.guid))
                 ELSE ScanNotifications(lines, i + 1, fn, ln)

\* process_pending.find_guid_in_notifications
find_guid_in_notifications(lines, first_name, last_name) ==
    ScanNotifications(lines, 1, Lower(first_name), Lower(last_name))

RECURSIVE ScanByName(_, _, _, _)
ScanByName(lines, i, first_name, last_name) ==
    IF i > Len(lines) THEN Return(Null)
    ELSE LET line == lines[i] IN
        IF line.json = "invalid" THEN ScanByName(lines, i + 1, first_name, last_name)
        ELSE IF line.json # "object" THEN Raise("AttributeError")
        ELSE IF GetOrEmpty(line.name).t # "str" \/ GetOrEmpty(line.status).t # "str"
             THEN Raise("AttributeError")
        ELSE LET name == Lower(GetOrEmpty(line.name).s)
                 status == Lower(GetOrEmpty(line.status).s)
             IN  IF NameMatches(Lower(first_name), Lower(last_name), name, status)
                 THEN Return(Get(line.guid))
                 ELSE ScanByName(lines, i + 1, first_name, last_name)

\* formidable_receiver.find_guid_by_name
find_guid_by_name(lines, first_name, last_name) ==
    ScanByName(lines, 1, first_name, last_name)

-----------------------------------------------------------------------------
(* Files holding a JSON list.  st is "missing" (no such file), "ok" (a JSON  *)
(* list, items) or "partial" (opened with mode "w" and not yet closed: the   *)
(* file is truncated and json.load rejects what a reader finds).             *)

FileMissing == [st |-> "missing", items |-> <<>>]
FileOk(items) == [st |-> "ok", items |-> items]
FilePartial == [st |-> "partial", items |-> <<>>]

\* an element of a JSON list, or a key of a JSON object, that is no object
NotAnObject == [json |-> "string"]

\* a file holding a JSON object with one key: json.load gives a dict, and
\* iterating a dict gives its keys
FileObject == [st |-> "object", items |-> <<NotAnObject>>]

\* process_pending.read_json_list
read_json_list(file) ==
    IF file.st = "missing" THEN Return(<<>>)
    ELSE IF file.st = "partial" THEN Raise("JSONDecodeError")
    ELSE Return(file.items)

\* the tolerant read of add_to_pending_queue and of payday_webhook's save
ReadListOrEmpty(file) == IF file.st = "ok" THEN file.items ELSE <<>>

\* process_pending.write_json_list_atomic: the file after tmp.replace(filepath)
write_json_list_atomic(data) == FileOk(data)

-----------------------------------------------------------------------------
(* Pending queue upsert *)

QueueKey(e) == <<Lower(e.first_name), Lower(e.last_name), Lower(e.loan_type)>>

RECURSIVE UpsertFrom(_, _, _)
UpsertFrom(queue, i, item) ==
    IF i > Len(queue) THEN Append(queue, item)
    ELSE IF QueueKey(queue[i]) = QueueKey(item)
         THEN [queue EXCEPT ![i] = item]
         ELSE UpsertFrom(queue, i + 1, item)

\* an upsert that never looks for the key
Upsert_AlwaysAppend(queue, item) == Append(queue, item)

\* the in-memory part of add_to_pending_queue
Upsert(queue, item) == UpsertFrom(queue, 1, item)

PendingItem(first, last, ltype, amount, ts) ==
    [first_name |-> Strip(first), last_name |-> Strip(last), loan_type |-> ltype,
     loan_amount |-> amount, timestamp |-> ts]

-----------------------------------------------------------------------------
(* Report text *)

RECURSIVE SumSeq(_)
SumSeq(s) == IF s = <<>> THEN 0 ELSE Head(s) + SumSeq(Tail(s))

\* the length of "\n".join(sections)
JoinLen(lens) == IF lens = <<>> THEN 0 ELSE SumSeq(lens) + Len(lens) - 1

\* the lengths of the lines of a transaction list
TxLines(n) == IF n = 0 THEN <<26>> ELSE [i \in 1..n |-> 34]

(* inverite_data.convert_to_text for a report that carries a display name    *)
(* and n top-level transactions, no accounts and no summary: the str it      *)
(* returns, by the lengths of its lines.                                     *)
convert_to_text(report) ==
    [t |-> "str",
     len |-> JoinLen(<<21, 6 + Len(report.name), 10, 16, 40, 21, 33, 40, 26, 40,
                       22, 40, 33>> \o TxLines(report.ntx))]

\* `a, b = value`: a str unpacks into its characters
UnpackPair(value) == value.len = ConvertTargets

-----------------------------------------------------------------------------
(* The decision service's reply and loan_analyzer.safe_parse_json *)

(* A reply text is a sequence of lexical pieces: a "```json" fence, a "```"  *)
(* fence, a run of whitespace, a run of plain words, "{", "}", one member    *)
(* "key": "value" of an object (with the comma that joins it to the next),   *)
(* and the text of a complete JSON value that is not an object.              *)
Tok(k, key, v) == [k |-> k, key |-> key, v |-> v]
FenceJson == Tok("fence_json", "", "")
Fence == Tok("fence", "", "")
Blank == Tok("space", "", "")
Word == Tok("word", "", "")
Open == Tok("open", "", "")
Close == Tok("close", "", "")
Pair(key, v) == Tok("pair", key, v)
Scalar == Tok("value", "", "")

\* the message None
NoMessage == <<Tok("none", "", "")>>
\* chat.completions.create raises
ServiceDown == <<Tok("raise", "", "")>>
ServiceRaises(svc) == svc = ServiceDown

\* the reply {"decision": d}
Reply(d) == <<Open, Pair("decision", d), Close>>

RequiredKeys == {"decision", "approved_amount", "rationale"}
\* the value of a member: a text, the literal null, or a number; and what
\* dict.get gives for a key the object lacks
JsonNull == "<null>"
JsonNumber == "<number>"
NoValue == "<none>"
ErrorDict == [kind |-> "dict", keys |-> RequiredKeys, decision |-> "Error",
              approved_amount |-> JsonNull, rationale |-> "text"]

\* str.strip on a reply
RECURSIVE TokLStrip(_)
TokLStrip(m) == IF m # <<>> /\ m[1] = Blank THEN TokLStrip(Tail(m)) ELSE m
RECURSIVE TokRStrip(_)
TokRStrip(m) ==
    IF m # <<>> /\ m[Len(m)] = Blank THEN TokRStrip(SubSeq(m, 1, Len(m) - 1)) ELSE m
TokStrip(m) == TokRStrip(TokLStrip(m))

\* line 34: re.sub(r"^```json", "", cleaned).strip()
DropLeadingJsonFence(m) ==
    TokStrip(IF m # <<>> /\ m[1] = FenceJson THEN Tail(m) ELSE m)

\* line 35: re.sub(r"^```|```$", "", cleaned).strip(); of a leading "```json"
\* the word stays
DropEdgeFences(m) ==
    LET a == IF m # <<>> /\ m[1] = Fence THEN Tail(m)
             ELSE IF m # <<>> /\ m[1] = FenceJson THEN <<Word>> \o Tail(m)
             ELSE m
        b == IF a # <<>> /\ a[Len(a)] = Fence THEN SubSeq(a, 1, Len(a) - 1) ELSE a
    IN  TokStrip(b)

\* line 36: cleaned.replace("```", "").strip()
RECURSIVE DropFences(_)
DropFences(m) ==
    IF m = <<>> THEN <<>>
    ELSE IF m[1] = Fence THEN DropFences(Tail(m))
    ELSE IF m[1] = FenceJson THEN <<Word>> \o DropFences(Tail(m))
    ELSE <<m[1]>> \o DropFences(Tail(m))

\* lines 39-41: re.search(r"\{.*\}", cleaned, re.DOTALL), from the first "{"
\* to the last "}" after it
BraceSpan(m) ==
    LET opens == {i \in 1..Len(m) : m[i] = Open}
        closes == {i \in 1..Len(m) : m[i] = Close}
        first == CHOOSE i \in opens : \A j \in opens : i <= j
        last == CHOOSE i \in closes : \A j \in closes : j <= i
    IN  IF opens # {} /\ closes # {} /\ first < last THEN SubSeq(m, first, last) ELSE m

RECURSIVE NoBlanks(_)
NoBlanks(m) ==
    IF m = <<>> THEN <<>>
    ELSE IF m[1] = Blank THEN NoBlanks(Tail(m))
    ELSE <<m[1]>> \o NoBlanks(Tail(m))

\* json.loads gives an object
IsObjectText(m) ==
    LET b == NoBlanks(m) IN
    /\ Len(b) >= 2
    /\ b[1] = Open
    /\ b[Len(b)] = Close
    /\ \A i \in 2..(Len(b) - 1) : b[i].k = "pair"

\* the object json.loads gives: its keys and the values of the three keys
\* the callers read (of a key given twice the last value stays)
RECURSIVE ValueOf(_, _)
ValueOf(b, key) ==
    IF b = <<>> THEN NoValue
    ELSE IF b[Len(b)].k = "pair" /\ b[Len(b)].key = key THEN b[Len(b)].v
    ELSE ValueOf(SubSeq(b, 1, Len(b) - 1), key)

LoadsObject(m) ==
    LET b == NoBlanks(m) IN
    [kind |-> "dict", keys |-> {b[i].key : i \in 2..(Len(b) - 1)},
     decision |-> ValueOf(b, "decision"),
     approved_amount |-> ValueOf(b, "approved_amount"),
     rationale |-> ValueOf(b, "rationale")]

(* loan_analyzer.safe_parse_json: None gives the error dict; the fences are  *)
(* taken off; the text from the first "{" to the last "}" is parsed; an      *)
(* object is returned as json.loads gave it, any other value and any text    *)
(* json.loads rejects give the error dict.                                   *)
safe_parse_json(message) ==
    IF message = NoMessage THEN ErrorDict
    ELSE LET cleaned == BraceSpan(TokStrip(DropFences(DropEdgeFences(
                            DropLeadingJsonFence(TokStrip(message))))))
         IN  IF IsObjectText(cleaned) THEN LoadsObject(cleaned)
             ELSE ErrorDict

\* dict.setdefault for the three keys, lines 334-336
WithDefaults(d) ==
    [kind |-> "dict", keys |-> d.keys \cup RequiredKeys,
     decision |-> IF "decision" \in d.keys THEN d.decision ELSE "Error",
     approved_amount |-> IF "approved_amount" \in d.keys THEN d.approved_amount
                         ELSE JsonNull,
     rationale |-> IF "rationale" \in d.keys THEN d.rationale ELSE "text"]

\* what the pre-scan extract_gambling_stats found in the report text: the
\* number of gambling lines and the largest amount on them
BaseG(count, max) == [gambling_detected |-> count > 0, gambling_txn_count_30d |-> count,
                      gambling_max_single_amount |-> max]

(* lines 321-331, the guardrail after the parse: with gambling pre-scanned   *)
(* the rationale is extended (rstrip on a rationale that is no text raises   *)
(* AttributeError, which line 340 turns into the error dict), and at three   *)
(* gambling lines or a single amount of 150 the decision is set to Declined. *)
Guardrail(base_g, result) ==
    IF ~base_g.gambling_detected THEN result
    ELSE IF result.rationale \in {JsonNull, JsonNumber} THEN ErrorDict
    ELSE LET r == [result EXCEPT !.keys = @ \cup {"rationale"}, !.rationale = "text"] IN
         IF base_g.gambling_txn_count_30d >= 3 \/ base_g.gambling_max_single_amount >= 150
         THEN [r EXCEPT !.keys = @ \cup {"decision", "approved_amount"},
                        !.decision = "Declined", !.approved_amount = JsonNull]
         ELSE r

(* lines 294-346: the model call, the parse, the guardrail, the defaults; a  *)
(* failed call, or a reply without content, gives the error dict.            *)
AnalyzeGuarded(base_g, svc) ==
    IF ServiceRaises(svc) \/ svc = NoMessage THEN ErrorDict
    ELSE WithDefaults(Guardrail(base_g, safe_parse_json(TokStrip(svc))))

(* loan_analyzer.analyze_bank_statement on the text of a report of the       *)
(* pipeline, which has no gambling line                                      *)
analyze_bank_statement(report_text, loan_amount, svc) == AnalyzeGuarded(BaseG(0, 0), svc)

\* the drain's analysis if the conversion gave a pair and the analyzer took
\* three arguments
DrainAnalysis_Reached(report, loan_amount, svc) ==
    Return(analyze_bank_statement(convert_to_text(report), loan_amount, svc))

\* process_pending lines 121-125: convert, unpack, call the analyzer
DrainAnalysis(report, loan_amount, svc) ==
    LET text == convert_to_text(report) IN
    IF ~UnpackPair(text) THEN Raise("ValueError")
    ELSE IF DrainAnalyzeArgs # AnalyzeParams THEN Raise("TypeError")
    ELSE Return(analyze_bank_statement(text, loan_amount, svc))

\* formidable_receiver lines 307-308
WebAnalysis(report, loan_amount, svc) ==
    LET text == convert_to_text(report) IN
    IF WebAnalyzeArgs # AnalyzeParams THEN Raise("TypeError")
    ELSE Return(analyze_bank_statement(text, loan_amount, svc))

\* process_pending lines 128-155
NormalizeDecision(raw) == IF raw.kind = "dict" THEN raw.decision ELSE "Error"

-----------------------------------------------------------------------------
(* Decision ledger *)

(* A decision record.  The loan form's record carries loan_type, the drain's *)
(* record has no such key.                                                  *)
DecisionEntry(first, last, guid, ltype, decision, ts) ==
    [first_name |-> first, last_name |-> last, guid |-> guid, loan_type |-> ltype,
     decision |-> decision, timestamp |-> ts]

LedgerKey(d) == <<d.guid, d.timestamp>>

\* an append that does not look for the key
append_unique_decision_NoDedup(entry, file, lk) ==
    IF lk # "free" THEN [exc |-> "TimeoutError", file |-> file]
    ELSE LET r == read_json_list(file) IN
         IF r.exc # "none" THEN [exc |-> r.exc, file |-> file]
         ELSE [exc |-> "none", file |-> write_json_list_atomic(Append(r.val, entry))]

(* process_pending.append_unique_decision, run to its end: the lock file is  *)
(* created, the ledger read, the entry appended unless its key is there, and *)
(* the lock file removed.  A lock file that exists for the whole timeout     *)
(* makes file_lock raise TimeoutError.                                       *)
append_unique_decision(entry, file, lk) ==
    IF lk # "free" THEN [exc |-> "TimeoutError", file |-> file]
    ELSE LET r == read_json_list(file) IN
         IF r.exc # "none" THEN [exc |-> r.exc, file |-> file]
         ELSE IF LedgerKey(entry) \in {LedgerKey(r.val[k]) : k \in 1..Len(r.val)}
              THEN [exc |-> "none", file |-> file]
              ELSE [exc |-> "none", file |-> write_json_list_atomic(Append(r.val, entry))]

-----------------------------------------------------------------------------
(* report_features: texts, numbers and dates *)

\* the time of the clock in a day, and the window in days (window_days)
DayTicks == 2
WindowDays == 1

Digits == <<"0", "1", "2", "3", "4", "5", "6", "7", "8", "9">>
IsDigit(c) == \E i \in 1..10 : Digits[i] = c
DigitVal(c) == (CHOOSE i \in 1..10 : Digits[i] = c) - 1
IsLetter(c) == \E i \in 1..26 : c = LowerLetters[i] \/ c = UpperLetters[i]
\* \w of the regular expressions
IsWordChar(c) == IsLetter(c) \/ IsDigit(c) \/ c = "_"

RECURSIVE ParseNat(_)
ParseNat(s) ==
    IF s = <<>> THEN 0
    ELSE 10 * ParseNat(SubSeq(s, 1, Len(s) - 1)) + DigitVal(s[Len(s)])

\* str.replace(pat, "")
RECURSIVE Remove(_, _)
Remove(s, pat) ==
    IF Len(s) < Len(pat) THEN s
    ELSE IF SubSeq(s, 1, Len(pat)) = pat THEN Remove(SubSeq(s, Len(pat) + 1, Len(s)), pat)
    ELSE <<s[1]>> \o Remove(Tail(s), pat)

\* re.sub(r"\s+", " ", d)
RECURSIVE CollapseSpaces(_)
CollapseSpaces(s) ==
    IF Len(s) < 2 THEN s
    ELSE IF IsSpace(s[1]) /\ IsSpace(s[2]) THEN CollapseSpaces(Tail(s))
    ELSE <<s[1]>> \o CollapseSpaces(Tail(s))

\* str.startswith
StartsWith(s, p) == Len(s) >= Len(p) /\ SubSeq(s, 1, Len(p)) = p

\* re.search(r"\bword\b", s)
HasWord(word, s) ==
    \E i \in 0..(Len(s) - Len(word)) :
        /\ SubSeq(s, i + 1, i + Len(word)) = word
        /\ (i = 0 \/ ~IsWordChar(s[i]))
        /\ (i + Len(word) = Len(s) \/ ~IsWordChar(s[i + Len(word) + 1]))

\* " ".join(flags)
RECURSIVE Join(_)
Join(ss) ==
    IF ss = <<>> THEN <<>>
    ELSE IF Len(ss) = 1 THEN ss[1]
    ELSE ss[1] \o <<" ">> \o Join(Tail(ss))

\* a JSON number written with the digits s, and a JSON array
Num(s) == [t |-> "num", s |-> s]
Arr == [t |-> "array", s |-> <<>>]

(* A Python float with a whole value, or the float that is not a number.     *)
(* Every comparison with a NaN is false; a sum with a NaN is a NaN.          *)
F(n) == [nan |-> FALSE, n |-> n]
NaN == [nan |-> TRUE, n |-> 0]
FGt(a, b) == ~a.nan /\ ~b.nan /\ a.n > b.n
FEq(a, b) == ~a.nan /\ ~b.nan /\ a.n = b.n
FLe(a, b) == ~a.nan /\ ~b.nan /\ a.n <= b.n
FAdd(a, b) == IF a.nan \/ b.nan THEN NaN ELSE F(a.n + b.n)
FAbs(a) == IF a.nan THEN NaN ELSE F(IF a.n < 0 THEN 0 - a.n ELSE a.n)

FloatOk(x) == [exc |-> "none", val |-> x]
FloatErr(e) == [exc |-> e, val |-> F(0)]

\* float(s) on the texts of the model: digits with an optional sign, or the
\* word nan in any case with an optional sign; other text raises ValueError
PyFloat(s) ==
    LET signed == s[1] \in {"-", "+"}
        body == IF signed THEN Tail(s) ELSE s
    IN  IF body # <<>> /\ \A i \in 1..Len(body) : IsDigit(body[i])
        THEN FloatOk(F(IF s[1] = "-" THEN 0 - ParseNat(body) ELSE ParseNat(body)))
        ELSE IF Lower(body) = <<"n", "a", "n">> THEN FloatOk(NaN)
        ELSE FloatErr("ValueError")

(* report_features._to_float, on whole amounts: None is 0.0; a number is     *)
(* itself; any other value is turned into text, stripped, its commas taken   *)
(* out, and given to float(), which raises ValueError for text that is not a *)
(* number.  An absent key reads as "" (the default of t.get).                *)
to_float(v) ==
    IF v.t = "null" THEN FloatOk(F(0))
    ELSE IF v.t = "num" THEN FloatOk(F(ParseNat(v.s)))
    ELSE IF v.t = "array" THEN FloatErr("ValueError")
    ELSE LET s == Remove(Strip(v.s), <<",">>) IN
         IF s = <<>> THEN FloatOk(F(0)) ELSE PyFloat(s)

(* A date value: a text in the format "%Y-%m-%d %H:%M:%S" ("ymd_hms") or     *)
(* "%Y-%m-%d" ("ymd") or another one ("other"), a value that is no text, or  *)
(* an absent key.  Days are counted from the day the clock starts in.        *)
DateText(fmt, day, tod) == [t |-> "str", fmt |-> fmt, day |-> day, tod |-> tod]
DateNumber == [t |-> "num", fmt |-> "", day |-> 0, tod |-> 0]
NoDate == [t |-> "missing", fmt |-> "", day |-> 0, tod |-> 0]

NoTime == [some |-> FALSE, at |-> 0]
(* report_features._parse_dt: None for a falsy value; the two formats are    *)
(* tried in turn and every exception of strptime is swallowed, so a value    *)
(* that is no text gives None as well                                        *)
parse_dt(v) ==
    IF v.t # "str" THEN NoTime
    ELSE IF v.fmt = "ymd_hms" THEN [some |-> TRUE, at |-> v.day * DayTicks + v.tod]
    ELSE IF v.fmt = "ymd" THEN [some |-> TRUE, at |-> v.day * DayTicks]
    ELSE NoTime


\* the literals of report_features.py
Lit ==
    [deposit |-> <<"d", "e", "p", "o", "s", "i", "t">>,
     autodeposit |-> <<"a", "u", "t", "o", "d", "e", "p", "o", "s", "i", "t">>,
     credit |-> <<"c", "r", "e", "d", "i", "t">>,
     received |-> <<"r", "e", "c", "e", "i", "v", "e", "d">>,
     refund |-> <<"r", "e", "f", "u", "n", "d">>,
     branch_transaction |-> <<"b", "r", "a", "n", "c", "h", " ", "t", "r", "a", "n", "s", "a", "c", "t", "i", "o", "n">>,
     pre_authorized |-> <<"p", "r", "e", "-", "a", "u", "t", "h", "o", "r", "i", "z", "e", "d">>,
     preauthorized |-> <<"p", "r", "e", "a", "u", "t", "h", "o", "r", "i", "z", "e", "d">>,
     preauth |-> <<"p", "r", "e", "a", "u", "t", "h">>,
     p_a_d |-> <<"p", ".", "a", ".", "d">>,
     pad |-> <<"p", "a", "d">>,
     transaction |-> <<"t", "r", "a", "n", "s", "a", "c", "t", "i", "o", "n">>,
     eft |-> <<"e", "f", "t">>,
     debit |-> <<"d", "e", "b", "i", "t">>,
     pos |-> <<"p", "o", "s">>,
     visa |-> <<"v", "i", "s", "a">>,
     mc |-> <<"m", "c">>,
     gambling |-> <<"g", "a", "m", "b", "l", "i", "n", "g">>,
     draftkings |-> <<"d", "r", "a", "f", "t", "k", "i", "n", "g", "s">>,
     bet365 |-> <<"b", "e", "t", "3", "6", "5">>,
     betmgm |-> <<"b", "e", "t", "m", "g", "m">>,
     fanduel |-> <<"f", "a", "n", "d", "u", "e", "l">>,
     rivalry |-> <<"r", "i", "v", "a", "l", "r", "y">>,
     thescore |-> <<"t", "h", "e", "s", "c", "o", "r", "e">>,
     northstar |-> <<"n", "o", "r", "t", "h", "s", "t", "a", "r">>,
     olg |-> <<"o", "l", "g">>,
     proline |-> <<"p", "r", "o", "l", "i", "n", "e">>,
     playnow |-> <<"p", "l", "a", "y", "n", "o", "w">>,
     ggpoker |-> <<"g", "g", "p", "o", "k", "e", "r">>,
     pokerstars |-> <<"p", "o", "k", "e", "r", "s", "t", "a", "r", "s">>,
     betway |-> <<"b", "e", "t", "w", "a", "y">>,
     unibet |-> <<"u", "n", "i", "b", "e", "t">>,
     leovegas |-> <<"l", "e", "o", "v", "e", "g", "a", "s">>,
     casino |-> <<"c", "a", "s", "i", "n", "o">>,
     sports_interaction |-> <<"s", "p", "o", "r", "t", "s", " ", "i", "n", "t", "e", "r", "a", "c", "t", "i", "o", "n">>,
     tonybet |-> <<"t", "o", "n", "y", "b", "e", "t">>,
     bet99 |-> <<"b", "e", "t", "9", "9">>,
     powerplay |-> <<"p", "o", "w", "e", "r", "p", "l", "a", "y">>,
     pinnacle |-> <<"p", "i", "n", "n", "a", "c", "l", "e">>,
     n888 |-> <<"8", "8", "8">>,
     sportsbook |-> <<"s", "p", "o", "r", "t", "s", "b", "o", "o", "k">>,
     bet |-> <<"b", "e", "t">>,
     betting |-> <<"b", "e", "t", "t", "i", "n", "g">>,
     is_payday |-> <<"i", "s", "_", "p", "a", "y", "d", "a", "y">>,
     is_loan |-> <<"i", "s", "_", "l", "o", "a", "n">>,
     fees_and_charges_loans_payday |-> <<"f", "e", "e", "s", "_", "a", "n", "d", "_", "c", "h", "a", "r", "g", "e", "s", "/", "l", "o", "a", "n", "s", "/", "p", "a", "y", "d", "a", "y">>]

\* texts of the reports: details, categories, flags, amounts
Txt ==
    [MoneyMart |-> <<"M", "o", "n", "e", "y", " ", "M", "a", "r", "t">>,
     MONEYMARTPAD |-> <<"M", "O", "N", "E", "Y", " ", "M", "A", "R", "T", " ", "P", "A", "D", " ", "1", "2", "3", "4", "5">>,
     Cash4You |-> <<"C", "a", "s", "h", " ", "4", " ", "Y", "o", "u">>,
     CasinoRama |-> <<"C", "a", "s", "i", "n", "o", " ", "R", "a", "m", "a">>,
     PAD |-> <<"P", "A", "D", " ", "1", "2", "3", "4", "5">>,
     Refund |-> <<"R", "e", "f", "u", "n", "d">>,
     Rent |-> <<"R", "e", "n", "t">>,
     cat_payday |-> <<"F", "e", "e", "s", "_", "a", "n", "d", "_", "C", "h", "a", "r", "g", "e", "s", "/", "L", "o", "a", "n", "s", "/", "P", "a", "y", "d", "a", "y">>,
     cat_Gambling |-> <<"E", "n", "t", "e", "r", "t", "a", "i", "n", "m", "e", "n", "t", "/", "G", "a", "m", "b", "l", "i", "n", "g">>,
     cat_entertainment |-> <<"e", "n", "t", "e", "r", "t", "a", "i", "n", "m", "e", "n", "t">>,
     flag_PAYDAY |-> <<"I", "S", "_", "P", "A", "Y", "D", "A", "Y">>,
     flag_loan |-> <<"i", "s", "_", "l", "o", "a", "n">>,
     n50 |-> <<"5", "0">>,
     n300 |-> <<"3", "0", "0">>,
     n1_200 |-> <<" ", "1", ",", "2", "0", "0", " ">>,
     abc |-> <<"a", "b", "c">>,
     n20 |-> <<"2", "0">>,
     n150 |-> <<"1", "5", "0">>,
     neg50 |-> <<"-", "5", "0">>,
     nan |-> <<"n", "a", "n">>]

-----------------------------------------------------------------------------
(* report_features: the extractor.  Of the feature vector the gambling, loan *)
(* and cashflow features are computed; amounts are whole dollars.            *)

\* report_features._direction
direction(credit, debit, details) ==
    IF FGt(credit, F(0)) /\ FEq(debit, F(0)) THEN "credit"
    ELSE IF FGt(debit, F(0)) /\ FEq(credit, F(0)) THEN "debit"
    ELSE IF \E k \in {Lit.deposit, Lit.autodeposit, Lit.credit, Lit.received, Lit.refund} :
                Contains(k, Lower(details))
         THEN "credit"
    ELSE "debit"

BoilerplateTokens ==
    <<Lit.branch_transaction, Lit.pre_authorized, Lit.preauthorized, Lit.preauth, Lit.p_a_d,
      Lit.pad, Lit.transaction, Lit.eft, Lit.debit, Lit.credit, Lit.pos, Lit.visa, Lit.mc>>

RECURSIVE RemoveEach(_, _)
RemoveEach(s, tokens) ==
    IF tokens = <<>> THEN s ELSE RemoveEach(Remove(s, Head(tokens)), Tail(tokens))

\* line 48: every character outside [a-z0-9\s\.\-&] becomes a space
IsSimpleChar(c) ==
    \/ \E i \in 1..26 : c = LowerLetters[i]
    \/ IsDigit(c)
    \/ IsSpace(c)
    \/ c \in {".", "-", "&"}
KeepSimple(s) == [i \in 1..Len(s) |-> IF IsSimpleChar(s[i]) THEN s[i] ELSE " "]

\* line 49: a run of two or more digits between word boundaries becomes
\* blank (the spaces are collapsed by line 50)
InLongNumber(s, i) ==
    \E a \in 1..i, b \in i..Len(s) :
        /\ b - a >= 1
        /\ \A k \in a..b : IsDigit(s[k])
        /\ (a = 1 \/ ~IsWordChar(s[a - 1]))
        /\ (b = Len(s) \/ ~IsWordChar(s[b + 1]))
DropLongNumbers(s) == [i \in 1..Len(s) |-> IF InLongNumber(s, i) THEN " " ELSE s[i]]

\* report_features._canonical_counterparty
canonical_counterparty(details) ==
    Strip(CollapseSpaces(DropLongNumbers(KeepSimple(
        RemoveEach(CollapseSpaces(Lower(details)), BoilerplateTokens)))))

GamblingBrands ==
    {Lit.draftkings, Lit.bet365, Lit.betmgm, Lit.fanduel, Lit.rivalry, Lit.thescore, Lit.northstar,
     Lit.olg, Lit.proline, Lit.playnow, Lit.ggpoker, Lit.pokerstars, Lit.betway, Lit.unibet,
     Lit.leovegas, Lit.casino, Lit.sports_interaction, Lit.tonybet, Lit.bet99, Lit.powerplay,
     Lit.pinnacle, Lit.n888}

\* report_features._is_gambling: the category, a brand anywhere in the
\* details, or one of the words casino, sportsbook, bet, betting
is_gambling(category, details) ==
    \/ Contains(Lit.gambling, Lower(category))
    \/ \E b \in GamblingBrands : Contains(b, Lower(details))
    \/ \E w \in {Lit.casino, Lit.sportsbook, Lit.bet, Lit.betting} : HasWord(w, Lower(details))

\* report_features._is_payday
is_payday(flags, category) ==
    LET f == Lower(Join(flags)) IN
    \/ Contains(Lit.is_payday, f)
    \/ Contains(Lit.is_loan, f)
    \/ StartsWith(Lower(category), Lit.fees_and_charges_loans_payday)

(* A transaction of a report, an account, and a report.  A transaction or an *)
(* account may be a JSON value that is no object; a source may be no dict,   *)
(* or a dict without "accounts".                                             *)
Txn(date, credit, debit, balance, details, category, flags) ==
    [obj |-> TRUE, date |-> date, credit |-> credit, debit |-> debit,
     balance |-> balance, details |-> details, category |-> category, flags |-> flags]
NotATxn ==
    [obj |-> FALSE, date |-> NoDate, credit |-> Missing, debit |-> Missing,
     balance |-> Missing, details |-> <<>>, category |-> <<>>, flags |-> <<>>]
Account(transactions) == [obj |-> TRUE, transactions |-> transactions]
NotAnAccount == [obj |-> FALSE, transactions |-> <<>>]
ReportDict(complete, accounts) ==
    [dict |-> TRUE, has_accounts |-> TRUE, complete |-> complete, accounts |-> accounts]
DictWithoutAccounts ==
    [dict |-> TRUE, has_accounts |-> FALSE, complete |-> NoDate, accounts |-> <<>>]
NotADict ==
    [dict |-> FALSE, has_accounts |-> FALSE, complete |-> NoDate, accounts |-> <<>>]

Scanned(exc, rows) == [exc |-> exc, rows |-> rows]

(* lines 122-141 for one transaction: t.get on a value that is no object     *)
(* raises AttributeError; a transaction without a date in the window is      *)
(* skipped; the amounts of the others go through _to_float                   *)
ScanTxn(t, start_dt, end_dt) ==
    IF ~t.obj THEN Scanned("AttributeError", <<>>)
    ELSE LET dt == parse_dt(t.date) IN
         IF ~dt.some \/ ~(start_dt <= dt.at /\ dt.at <= end_dt) THEN Scanned("none", <<>>)
         ELSE LET credit == to_float(t.credit)
                  debit == to_float(t.debit)
                  balance == to_float(t.balance)
                  dir == direction(credit.val, debit.val, t.details)
              IN  IF credit.exc # "none" THEN Scanned(credit.exc, <<>>)
                  ELSE IF debit.exc # "none" THEN Scanned(debit.exc, <<>>)
                  ELSE IF balance.exc # "none" THEN Scanned(balance.exc, <<>>)
                  ELSE Scanned("none",
                           <<[details |-> t.details, category |-> t.category,
                              flags |-> [i \in 1..Len(t.flags) |-> Lower(t.flags[i])],
                              direction |-> dir,
                              amount |-> IF dir = "credit" THEN credit.val ELSE debit.val,
                              balance |-> balance.val,
                              counterparty |-> canonical_counterparty(t.details)]>>)

RECURSIVE ScanTxns(_, _, _)
ScanTxns(ts, start_dt, end_dt) ==
    IF ts = <<>> THEN Scanned("none", <<>>)
    ELSE LET h == ScanTxn(Head(ts), start_dt, end_dt) IN
         IF h.exc # "none" THEN h
         ELSE LET r == ScanTxns(Tail(ts), start_dt, end_dt) IN
              IF r.exc # "none" THEN r ELSE Scanned("none", h.rows \o r.rows)

\* lines 119-121: acc.get on a value that is no object raises AttributeError
RECURSIVE ScanAccounts(_, _, _)
ScanAccounts(accounts, start_dt, end_dt) ==
    IF accounts = <<>> THEN Scanned("none", <<>>)
    ELSE IF ~Head(accounts).obj THEN Scanned("AttributeError", <<>>)
    ELSE LET h == ScanTxns(Head(accounts).transactions, start_dt, end_dt) IN
         IF h.exc # "none" THEN h
         ELSE LET r == ScanAccounts(Tail(accounts), start_dt, end_dt) IN
              IF r.exc # "none" THEN r ELSE Scanned("none", h.rows \o r.rows)

\* sum(x["amount"] for x in rows), from the left
RECURSIVE SumAmounts(_)
SumAmounts(rows) ==
    IF rows = <<>> THEN F(0)
    ELSE FAdd(SumAmounts(SubSeq(rows, 1, Len(rows) - 1)), rows[Len(rows)].amount)

\* the rows with abs(x["amount"]) for their amount
AbsAmounts(rows) == [i \in 1..Len(rows) |-> [rows[i] EXCEPT !.amount = FAbs(@)]]

\* max([...] or [0.0]): Python's max keeps the item it holds unless a later
\* one compares greater
RECURSIVE MaxAmount(_)
MaxAmount(rows) ==
    IF rows = <<>> THEN F(0)
    ELSE IF Len(rows) = 1 THEN rows[1].amount
    ELSE LET m == MaxAmount(SubSeq(rows, 1, Len(rows) - 1)) IN
         IF FGt(rows[Len(rows)].amount, m) THEN rows[Len(rows)].amount ELSE m

PaydayRow(x) == is_payday(x.flags, x.category)

\* an active-loan count that takes payday transactions of either direction
ActiveLoans_AnyDirection(rows) ==
    Cardinality({rows[i].counterparty :
                    i \in {k \in 1..Len(rows) : /\ PaydayRow(rows[k])
                                                /\ rows[k].counterparty # <<>>}})

\* line 175
ActiveLoans(rows) ==
    Cardinality({rows[i].counterparty :
                    i \in {k \in 1..Len(rows) : /\ PaydayRow(rows[k])
                                                /\ rows[k].direction = "debit"
                                                /\ rows[k].counterparty # <<>>}})

\* lines 153-157, 166-175, 181-214
Features(rows, window_days) ==
    LET g == SelectSeq(rows, LAMBDA x : is_gambling(x.category, x.details))
        pd == SelectSeq(rows, PaydayRow)
    IN  [window_days |-> window_days,
         gambling_detected |-> Len(g) > 0,
         gambling_txn_count_30d |-> Len(g),
         gambling_total_amount_30d |-> SumAmounts(AbsAmounts(g)),
         gambling_max_single_amount |-> MaxAmount(AbsAmounts(g)),
         new_loans_received_count |-> Len(SelectSeq(pd, LAMBDA x : x.direction = "credit")),
         loan_deductions_count |-> Len(SelectSeq(pd, LAMBDA x : x.direction = "debit")),
         distinct_lenders_count |->
             Cardinality({pd[i].counterparty : i \in 1..Len(pd)} \ {<<>>}),
         existing_loans_count |-> ActiveLoans(rows),
         total_inflow_30d |-> SumAmounts(SelectSeq(rows, LAMBDA x : x.direction = "credit")),
         total_outflow_30d |-> SumAmounts(SelectSeq(rows, LAMBDA x : x.direction = "debit")),
         fallback_used |-> FALSE]

\* lines 221-243
NeutralDefaults(window_days) ==
    [window_days |-> window_days,
     gambling_detected |-> FALSE,
     gambling_txn_count_30d |-> 0,
     gambling_total_amount_30d |-> F(0),
     gambling_max_single_amount |-> F(0),
     new_loans_received_count |-> 0,
     loan_deductions_count |-> 0,
     distinct_lenders_count |-> 0,
     existing_loans_count |-> 0,
     total_inflow_30d |-> F(0),
     total_outflow_30d |-> F(0),
     fallback_used |-> TRUE]

\* the vector a call returned, or the exception it raised
Extracted(exc, val) == [exc |-> exc, val |-> val]

(* report_features.extract_features_from_json at clock time utcnow: the      *)
(* window ends at complete_datetime, or at the clock time if that is absent  *)
(* or does not parse                                                         *)
extract_features_from_json(resp, window_days, utcnow) ==
    LET c == parse_dt(resp.complete)
        end_dt == IF c.some THEN c.at ELSE utcnow
        start_dt == end_dt - window_days * DayTicks
        s == ScanAccounts(resp.accounts, start_dt, end_dt)
    IN  IF s.exc # "none" THEN Extracted(s.exc, NeutralDefaults(window_days))
        ELSE Extracted("none", Features(s.rows, window_days))

\* report_features.extract_features
extract_features(source, window_days, utcnow) ==
    IF source.dict /\ source.has_accounts
    THEN extract_features_from_json(source, window_days, utcnow)
    ELSE Extracted("none", NeutralDefaults(window_days))

\* no call of the extractor yet
NoFeatures == [calls |-> 0, source |-> NotADict, at1 |-> 0, at2 |-> 0,
               first |-> Extracted("none", NeutralDefaults(WindowDays)),
               second |-> Extracted("none", NeutralDefaults(WindowDays))]

-----------------------------------------------------------------------------
(* Processes *)

Threads == {1, 2}
Drains == {1, 2}

NoItem == [first_name |-> <<>>, last_name |-> <<>>, loan_type |-> <<>>,
           loan_amount |-> "", timestamp |-> 0]

WebIdle ==
    [pc |-> "idle", first |-> <<>>, last |-> <<>>, ltype |-> <<>>, amount |-> "",
     attempt |-> 0, guid |-> Null, decision |-> "", item |-> NoItem, buf |-> <<>>,
     resp |-> 0, ack |-> ""]

\* no call of append_unique_decision in progress or finished
NoCall == [entry |-> NoItem, exc |-> "none", ret |-> ""]

DrainIdle ==
    [pc |-> "idle", queue |-> <<>>, i |-> 0, new_queue |-> <<>>, guid |-> Null,
     result |-> "none", seen |-> <<>>, extHeld |-> FALSE, cycles |-> 0, out |-> "",
     call |-> NoCall]

\* no direct call of the drain's recording step yet
NoAppend == [calls |-> 0, entry |-> NoItem, lk |-> "free", before |-> FileMissing,
             after |-> FileMissing, exc |-> "none", kept |-> FALSE]

\* what requests.get gave: a response with its status code and body, or a
\* requests.RequestException
Response(status, body) == [kind |-> "response", status |-> status, body |-> body]
NetworkError == [kind |-> "error", status |-> 0,
                 body |-> [json |-> "invalid", status |-> "", keys |-> {}]]
\* a body: what response.json() makes of it, and for an object its "status"
\* value and its keys
Body(json, status, keys) == [json |-> json, status |-> status, keys |-> keys]

\* no call of fetch_report yet
NoFetch == [pc |-> "idle", retries |-> 0, attempt |-> 0, requests |-> 0,
            last |-> NetworkError, data |-> Body("invalid", "", {})]

NoParse == [calls |-> 0, message |-> <<>>, result |-> ErrorDict]
\* no call of the analyzer on its own yet
NoAnalyze == [calls |-> 0, base_g |-> BaseG(0, 0), svc |-> <<>>, result |-> ErrorDict]
NoProbe == [first |-> <<>>, last |-> <<>>, lines |-> <<>>,
            by_name |-> Return(Null), in_notifications |-> Return(Null), calls |-> 0,
            append |-> NoAppend, parse |-> NoParse, fetch |-> NoFetch,
            features |-> NoFeatures, analyze |-> NoAnalyze]

Init ==
    /\ now = 0
    /\ log = <<>>
    /\ queueFile = FileMissing
    /\ ledgerFile = FileMissing
    /\ lock = "free"
    /\ web = [t \in Threads |-> WebIdle]
    /\ drain = [d \in Drains |-> DrainIdle]
    /\ probe = NoProbe

\* a second of wall-clock time passes
Tick ==
    /\ now < MaxTime
    /\ now' = now + 1
    /\ UNCHANGED <<log, queueFile, ledgerFile, lock, web, drain, probe>>

-----------------------------------------------------------------------------
(* Verification notices *)

\* a write that opens the file with mode "w"
json_lines_write_Rewrite(lines, entry) == <<entry>>

\* formidable_receiver._json_lines_write: the file is opened with mode "a" and
\* the line reaches it in the one write() that closing the file performs
json_lines_write(lines, entry) == Append(lines, entry)

(* formidable_receiver.receive_inverite_notification for a JSON object       *)
(* payload whose mapped id, name and status read as g, n and s.              *)
receive_inverite_notification(g, n, s) ==
    /\ Len(log) < MaxLog
    /\ log' = json_lines_write(log,
                   LogObject(Get(g), OrEmpty(Get(n)), Str(Strip(OrEmpty(Get(s)).s))))
    /\ UNCHANGED <<now, queueFile, ledgerFile, lock, web, drain, probe>>

\* formidable_receiver.local_notification: the posted JSON value is logged as it is
local_notification(data) ==
    /\ Len(log) < MaxLog
    /\ log' = json_lines_write(log, data)
    /\ UNCHANGED <<now, queueFile, ledgerFile, lock, web, drain, probe>>

\* a direct call of the two lookup functions on the log as it stands
LookupCall(first, last) ==
    /\ probe' = [NoProbe EXCEPT
                    !.first = first, !.last = last, !.lines = log,
                    !.by_name = find_guid_by_name(log, first, last),
                    !.in_notifications = find_guid_in_notifications(log, first, last),
                    !.calls = 1]
    /\ UNCHANGED <<now, log, queueFile, ledgerFile, lock, web, drain>>

-----------------------------------------------------------------------------
(* The loan form: formidable_receiver.payday_webhook *)

AllowedProvinces == {"ontario", "alberta"}

\* lines 203-279: read the form, check the province
W_submit(t, first, last, ltype, amount, province) ==
    /\ web[t].pc = "idle"
    /\ web' = [web EXCEPT ![t] =
                 IF province \notin AllowedProvinces
                 THEN [WebIdle EXCEPT !.resp = 403]
                 ELSE [WebIdle EXCEPT !.pc = "poll", !.first = Strip(first),
                                      !.last = Strip(last), !.ltype = ltype,
                                      !.amount = amount]]
    /\ UNCHANGED <<now, log, queueFile, ledgerFile, lock, drain, probe>>

\* lines 284-291: one pass of the polling loop
W_poll(t) ==
    /\ web[t].pc = "poll"
    /\ LET r == find_guid_by_name(log, web[t].first, web[t].last) IN
       web' = [web EXCEPT ![t] =
                 IF r.exc # "none" THEN [WebIdle EXCEPT !.resp = 500]
                 ELSE IF Truthy(r.val) THEN [@ EXCEPT !.pc = "fetch", !.guid = r.val]
                 ELSE IF @.attempt + 1 < LookupAttempts
                      THEN [@ EXCEPT !.attempt = @ + 1]
                      ELSE [@ EXCEPT !.pc = "enqueue"]]
    /\ UNCHANGED <<now, log, queueFile, ledgerFile, lock, drain, probe>>

\* add_to_pending_queue lines 150-184: shape the item, read the queue, upsert
A_read(t) ==
    /\ web[t].pc = "enqueue"
    /\ LET item == PendingItem(web[t].first, web[t].last, web[t].ltype,
                               web[t].amount, now) IN
       web' = [web EXCEPT ![t] =
                 [@ EXCEPT !.pc = "q_open", !.item = item,
                           !.buf = Upsert(ReadListOrEmpty(queueFile), item)]]
    /\ UNCHANGED <<now, log, queueFile, ledgerFile, lock, drain, probe>>

\* add_to_pending_queue line 186: open(PENDING_QUEUE_FILE, "w") truncates the file
A_open(t) ==
    /\ web[t].pc = "q_open"
    /\ queueFile' = FilePartial
    /\ web' = [web EXCEPT ![t].pc = "q_dump"]
    /\ UNCHANGED <<now, log, ledgerFile, lock, drain, probe>>

\* add_to_pending_queue lines 187-189 and payday_webhook lines 300-303
A_dump(t) ==
    /\ web[t].pc = "q_dump"
    /\ queueFile' = FileOk(web[t].buf)
    /\ web' = [web EXCEPT ![t] = [WebIdle EXCEPT !.resp = 202, !.item = web[t].item]]
    /\ UNCHANGED <<now, log, ledgerFile, lock, drain, probe>>

\* lines 306-308: fetch the report (report.ok is FALSE when fetch_report
\* raises) and run the analyzer
W_fetch(t, report, svc) ==
    /\ web[t].pc = "fetch"
    /\ LET r == IF report.ok THEN WebAnalysis(report, web[t].amount, svc)
                ELSE Raise("RuntimeError") IN
       web' = [web EXCEPT ![t] =
                 IF r.exc # "none" THEN [WebIdle EXCEPT !.resp = 500]
                 ELSE [@ EXCEPT !.pc = "save", !.decision = r.val.decision]]
    /\ UNCHANGED <<now, log, queueFile, ledgerFile, lock, drain, probe>>

\* lines 311-332: read the ledger, build the entry, append it in memory
W_save_read(t) ==
    /\ web[t].pc = "save"
    /\ Len(ReadListOrEmpty(ledgerFile)) < MaxLedger
    /\ web' = [web EXCEPT ![t] =
                 [@ EXCEPT !.pc = "l_open",
                           !.buf = Append(ReadListOrEmpty(ledgerFile),
                                          DecisionEntry(web[t].first, web[t].last,
                                                        web[t].guid, Str(web[t].ltype),
                                                        web[t].decision, now))]]
    /\ UNCHANGED <<now, log, queueFile, ledgerFile, lock, drain, probe>>

\* line 334: open(DECISION_LOG_FILE, "w") truncates the file
W_save_open(t) ==
    /\ web[t].pc = "l_open"
    /\ ledgerFile' = FilePartial
    /\ web' = [web EXCEPT ![t].pc = "l_dump"]
    /\ UNCHANGED <<now, log, queueFile, lock, drain, probe>>

\* lines 335-344
W_save_dump(t) ==
    /\ web[t].pc = "l_dump"
    /\ ledgerFile' = FileOk(web[t].buf)
    /\ web' = [web EXCEPT ![t] = [WebIdle EXCEPT !.resp = 200]]
    /\ UNCHANGED <<now, log, queueFile, lock, drain, probe>>

-----------------------------------------------------------------------------
(* The drain cycle: process_pending.process_pending *)

\* what the cycle notes about the applicant it has just handled: the id the
\* lookup gave, whether the report was fetched, whether the decision service
\* answered, whether the applicant is kept, and the ledger records gained
Handled(guid, fetched, served, kept, gained) ==
    [guid |-> guid, fetched |-> fetched, served |-> served, kept |-> kept,
     gained |-> gained]

\* a loop that puts a kept applicant in front of those kept before
NextApplicant_Reordering(dr, kept, note) ==
    [dr EXCEPT !.pc = IF dr.i = Len(dr.queue) THEN "writeback" ELSE "lookup",
               !.i = dr.i + 1,
               !.guid = Null,
               !.new_queue = IF kept THEN <<dr.queue[dr.i]>> \o dr.new_queue
                             ELSE dr.new_queue,
               !.seen = Append(dr.seen, note)]

\* the loop moves to the next applicant, or to the write-back after the last
NextApplicant(dr, kept, note) ==
    [dr EXCEPT !.pc = IF dr.i = Len(dr.queue) THEN "writeback" ELSE "lookup",
               !.i = dr.i + 1,
               !.guid = Null,
               !.new_queue = IF kept THEN Append(dr.new_queue, dr.queue[dr.i])
                             ELSE dr.new_queue,
               !.seen = Append(dr.seen, note)]

\* the cycle is over: its locals are gone, its notes and its outcome stay
Finished(dr, result) ==
    [DrainIdle EXCEPT !.result = result, !.seen = dr.seen, !.extHeld = dr.extHeld,
                      !.cycles = dr.cycles]

\* lines 86-96: read the queue; an unreadable file counts as empty, and an
\* empty queue ends the cycle without a write
D_start(d) ==
    /\ drain[d].pc = "idle"
    /\ drain[d].cycles < MaxCycles
    /\ LET r == read_json_list(queueFile)
           queue == IF r.exc = "none" THEN r.val ELSE <<>> IN
       drain' = [drain EXCEPT ![d] =
                   IF queue = <<>>
                   THEN [DrainIdle EXCEPT !.result = "returned",
                                          !.cycles = drain[d].cycles + 1,
                                          !.out = "no_pending"]
                   ELSE [DrainIdle EXCEPT !.pc = "lookup", !.queue = queue, !.i = 1,
                                          !.extHeld = (lock = "ext"),
                                          !.cycles = drain[d].cycles + 1]]
    /\ UNCHANGED <<now, log, queueFile, ledgerFile, lock, web, probe>>

\* an element of the queue that is a JSON object with the applicant's keys
IsApplicant(e) == "first_name" \in DOMAIN e

(* lines 97-117: read the applicant's fields and look the applicant up in    *)
(* the correlation log.  applicant.get raises on an element that is no       *)
(* object, and nothing catches that or an exception of the lookup.           *)
D_lookup(d) ==
    /\ drain[d].pc = "lookup"
    /\ LET applicant == drain[d].queue[drain[d].i] IN
       drain' = [drain EXCEPT ![d] =
                   IF ~IsApplicant(applicant) THEN Finished(@, "raised")
                   ELSE LET r == find_guid_in_notifications(
                                     log, Strip(applicant.first_name),
                                     Strip(applicant.last_name)) IN
                        IF r.exc # "none" THEN Finished(@, "raised")
                        ELSE IF ~Truthy(r.val)
                             THEN NextApplicant(@, TRUE,
                                                Handled(Null, FALSE, FALSE, TRUE, 0))
                             ELSE [@ EXCEPT !.pc = "analyze", !.guid = r.val]]
    /\ UNCHANGED <<now, log, queueFile, ledgerFile, lock, web, probe>>

\* lines 157-171: build the decision entry and append it to the ledger
RecordDecision(applicant, guid, decision, file, lk, ts) ==
    append_unique_decision(
        DecisionEntry(Strip(applicant.first_name), Strip(applicant.last_name),
                      guid, Missing, decision, ts),
        file, lk)

(* lines 119-175, the try block for a matched applicant: fetch, convert,     *)
(* analyze, normalize, append to the ledger; any exception keeps the         *)
(* applicant.  The outcome is the exception ("none" if none) and the ledger  *)
(* file afterwards.                                                          *)
TryMatched(applicant, guid, report, svc, file, lk, ts) ==
    IF ~report.ok THEN [exc |-> "RuntimeError", file |-> file]
    ELSE LET a == DrainAnalysis(report, applicant.loan_amount, svc) IN
         IF a.exc # "none" THEN [exc |-> a.exc, file |-> file]
         ELSE RecordDecision(applicant, guid, NormalizeDecision(a.val), file, lk, ts)

\* a try block whose exception ends the cycle
D_analyze_Aborting(d, report, svc) ==
    /\ drain[d].pc = "analyze"
    /\ LET applicant == drain[d].queue[drain[d].i]
           r == TryMatched(applicant, drain[d].guid, report, svc, ledgerFile, lock, now)
       IN  /\ Len(r.file.items) <= MaxLedger
           /\ ledgerFile' = r.file
           /\ drain' = [drain EXCEPT ![d] =
                          IF r.exc # "none" THEN Finished(@, "raised")
                          ELSE NextApplicant(@, FALSE,
                                   Handled(@.guid, report.ok, report.ok /\ ~ServiceRaises(svc),
                                           FALSE,
                                           Len(r.file.items) - Len(ledgerFile.items)))]
    /\ UNCHANGED <<now, log, queueFile, lock, web, probe>>

D_analyze(d, report, svc) ==
    /\ drain[d].pc = "analyze"
    /\ LET applicant == drain[d].queue[drain[d].i]
           r == TryMatched(applicant, drain[d].guid, report, svc, ledgerFile, lock, now)
       IN  /\ Len(r.file.items) <= MaxLedger
           /\ ledgerFile' = r.file
           /\ drain' = [drain EXCEPT ![d] =
                          NextApplicant(@, r.exc # "none",
                              Handled(@.guid, report.ok, report.ok /\ ~ServiceRaises(svc),
                                      r.exc # "none",
                                      Len(r.file.items) - Len(ledgerFile.items)))]
    /\ UNCHANGED <<now, log, queueFile, lock, web, probe>>

\* lines 177-183: write the kept applicants back; a failed write is printed
\* ("Could not update pending queue") and the function returns
D_writeback(d, io_ok) ==
    /\ drain[d].pc = "writeback"
    /\ queueFile' = IF io_ok THEN write_json_list_atomic(drain[d].new_queue)
                    ELSE queueFile
    /\ drain' = [drain EXCEPT ![d] =
                   [Finished(drain[d], "returned") EXCEPT
                       !.out = IF io_ok THEN "updated" ELSE "could_not_update"]]
    /\ UNCHANGED <<now, log, ledgerFile, lock, web, probe>>

\* the process is killed in the middle of a cycle
D_crash(d) ==
    /\ drain[d].pc # "idle"
    /\ drain' = [drain EXCEPT ![d] = Finished(@, "killed")]
    /\ UNCHANGED <<now, log, queueFile, ledgerFile, lock, web, probe>>

-----------------------------------------------------------------------------
(* Another party creates and removes the ledger's lock file *)

ExtLockAcquire ==
    /\ lock = "free"
    /\ lock' = "ext"
    /\ UNCHANGED <<now, log, queueFile, ledgerFile, web, drain, probe>>

ExtLockRelease ==
    /\ lock = "ext"
    /\ lock' = "free"
    /\ drain' = [d \in Drains |-> [drain[d] EXCEPT !.extHeld = FALSE]]
    /\ UNCHANGED <<now, log, queueFile, ledgerFile, web, probe>>

-----------------------------------------------------------------------------
(* append_unique_decision step by step: file_lock, the section, the release *)

\* the name under which process d owns the lock file it created
Holder(d) == IF d = 1 THEN "drain1" ELSE "drain2"

\* process_pending lines 157-168: the entry is built and the call begins
K_call(d, guid, decision) ==
    /\ drain[d].pc = "idle"
    /\ drain' = [drain EXCEPT ![d] =
                   [@ EXCEPT !.pc = "k_acquire",
                             !.call = [entry |-> DecisionEntry(T_Jane, T_Doe, guid, Missing,
                                                               decision, now),
                                       exc |-> "none", ret |-> ""]]]
    /\ UNCHANGED <<now, log, queueFile, ledgerFile, lock, web, probe>>

\* an acquisition that opens the lock file without O_EXCL
K_acquire_NonExclusive(d, timed_out) ==
    /\ drain[d].pc = "k_acquire"
    /\ lock' = Holder(d)
    /\ drain' = [drain EXCEPT ![d].pc = "k_section"]
    /\ UNCHANGED <<now, log, queueFile, ledgerFile, web, probe>>

(* file_lock lines 24-39, one pass of its loop: os.open with O_CREAT|O_EXCL  *)
(* creates the lock file if there is none; if there is one, the pass raises  *)
(* TimeoutError once the timeout has passed, and sleeps otherwise.           *)
K_acquire(d, timed_out) ==
    /\ drain[d].pc = "k_acquire"
    /\ IF lock = "free"
       THEN /\ lock' = Holder(d)
            /\ drain' = [drain EXCEPT ![d].pc = "k_section"]
       ELSE /\ lock' = lock
            /\ drain' = [drain EXCEPT ![d] =
                           IF timed_out
                           THEN [@ EXCEPT !.pc = "idle", !.call.exc = "TimeoutError"]
                           ELSE @]
    /\ UNCHANGED <<now, log, queueFile, ledgerFile, web, probe>>

(* append_unique_decision lines 58-65, inside the lock: read, look for the   *)
(* key, append and write; the write may fail, and the file then stays as it  *)
(* was.                                                                      *)
K_section(d, io_ok) ==
    /\ drain[d].pc = "k_section"
    /\ LET r == append_unique_decision(drain[d].call.entry, ledgerFile, "free")
           wrote == r.exc = "none" /\ r.file # ledgerFile
       IN  /\ Len(r.file.items) <= MaxLedger
           /\ ledgerFile' = IF io_ok THEN r.file ELSE ledgerFile
           /\ drain' = [drain EXCEPT ![d] =
                          [@ EXCEPT !.pc = "k_release",
                                    !.call.exc = IF wrote /\ ~io_ok THEN "OSError"
                                                 ELSE r.exc,
                                    !.call.ret = IF r.exc # "none" \/ (wrote /\ ~io_ok)
                                                 THEN ""
                                                 ELSE IF wrote THEN "True" ELSE "False"]]
    /\ UNCHANGED <<now, log, queueFile, lock, web, probe>>

\* a release that leaves the lock file in place
K_release_Keeping(d) ==
    /\ drain[d].pc = "k_release"
    /\ drain' = [drain EXCEPT ![d].pc = "idle"]
    /\ UNCHANGED <<now, log, queueFile, ledgerFile, lock, web, probe>>

\* file_lock lines 29-35, the finally: close the descriptor, unlink the file
K_release(d) ==
    /\ drain[d].pc = "k_release"
    /\ lock' = "free"
    /\ drain' = [drain EXCEPT ![d].pc = "idle"]
    /\ UNCHANGED <<now, log, queueFile, ledgerFile, web, probe>>

-----------------------------------------------------------------------------
(* Inputs *)

Reports == {[ok |-> TRUE, name |-> T_JaneMDoe, ntx |-> 1]}
FetchOutcomes == Reports \cup {[ok |-> FALSE, name |-> <<>>, ntx |-> 0]}
SvcOutcomes == {Reply("Approved"), ServiceDown}

MainNotices == {<<Str(g), Str(T_JaneMDoe), Str(s)>> : g \in {T_G1, T_G2},
                                                       s \in {T_verified, T_pending}}

(* The pipeline: one request thread, one drain process *)
Next ==
    \/ Tick
    \/ \E n \in MainNotices : receive_inverite_notification(n[1], n[2], n[3])
    \/ \E province \in {"ontario", "quebec"} :
           W_submit(1, T_Jane, T_Doe, T_payday, "500", province)
    \/ W_poll(1)
    \/ A_read(1)
    \/ A_open(1)
    \/ A_dump(1)
    \/ \E r \in FetchOutcomes, svc \in SvcOutcomes : W_fetch(1, r, svc)
    \/ W_save_read(1)
    \/ W_save_open(1)
    \/ W_save_dump(1)
    \/ D_start(1)
    \/ D_lookup(1)
    \/ \E r \in FetchOutcomes, svc \in SvcOutcomes : D_analyze(1, r, svc)
    \/ \E io_ok \in BOOLEAN : D_writeback(1, io_ok)
    \/ D_crash(1)

Spec == Init /\ [][Next]_vars

-----------------------------------------------------------------------------
(* Claims about the pipeline *)

Ledger == ledgerFile.items
Queue == queueFile.items

\* a finished cycle's notes on the applicants it matched and whose report
\* fetch and decision service both succeeded
ServedNotes(d) ==
    {k \in 1..Len(drain[d].seen) :
        Truthy(drain[d].seen[k].guid) /\ drain[d].seen[k].served}

(* C1: a queued applicant for whom a verified event with id G has since been *)
(* recorded is, by the next drain cycle whose report fetch and decision both *)
(* succeed, given exactly one decision record with guid G and is taken off   *)
(* the queue.                                                               *)
C1_MatchedApplicantRecorded ==
    \A d \in Drains :
        drain[d].result = "returned" =>
            \A k \in ServedNotes(d) :
                /\ drain[d].seen[k].gained = 1
                /\ ~drain[d].seen[k].kept

(* C4: the ledger never holds two records with the same (guid, timestamp),   *)
(* whichever writer appended them.                                           *)
C4_LedgerKeysUnique ==
    \A i, j \in 1..Len(Ledger) : i # j => LedgerKey(Ledger[i]) # LedgerKey(Ledger[j])

\* the drain's write-back step
WritesBack(d) == drain[d].pc = "writeback" /\ drain'[d].pc = "idle"

SeqToSet(q) == {q[k] : k \in 1..Len(q)}

(* C2: an upsert that completed between a drain's read of the queue and its  *)
(* write-back is in the queue after the write-back.                          *)
C2_UpsertDuringDrainKept ==
    [][\A d \in Drains :
          WritesBack(d) =>
              \A e \in SeqToSet(Queue) \ SeqToSet(drain[d].queue) :
                  e \in SeqToSet(queueFile'.items)]_vars

-----------------------------------------------------------------------------
(* The drain alone, on a queue that holds one applicant, with another party  *)
(* at the ledger's lock file                                                 *)

InitDrain ==
    /\ now = 0
    /\ log = <<>>
    /\ queueFile = FileOk(<<PendingItem(T_Jane, T_Doe, T_payday, "500", 0)>>)
    /\ ledgerFile = FileMissing
    /\ lock = "free"
    /\ web = [t \in Threads |-> WebIdle]
    /\ drain = [d \in Drains |-> DrainIdle]
    /\ probe = NoProbe

NextDrain ==
    \/ Tick
    \/ \E n \in MainNotices : receive_inverite_notification(n[1], n[2], n[3])
    \/ D_start(1)
    \/ D_lookup(1)
    \/ \E r \in FetchOutcomes, svc \in SvcOutcomes : D_analyze(1, r, svc)
    \/ \E io_ok \in BOOLEAN : D_writeback(1, io_ok)
    \/ D_crash(1)
    \/ ExtLockAcquire
    \/ ExtLockRelease

SpecDrain == InitDrain /\ [][NextDrain]_vars

\* the ledger records the drain wrote: they carry no loan_type
DrainRecords(first, last) ==
    {k \in 1..Len(Ledger) :
        /\ Ledger[k].loan_type = Missing
        /\ Ledger[k].first_name = first
        /\ Ledger[k].last_name = last}

C8_HeldLockTimesOut ==
    \A d \in Drains :
        (/\ drain[d].result # "none"
         /\ drain[d].pc = "idle"
         /\ drain[d].extHeld
         /\ ServedNotes(d) # {})
            => drain[d].result = "TimeoutError"

-----------------------------------------------------------------------------
(* Two request threads and two drain processes at the pending queue *)

NextQueue ==
    \/ W_submit(1, T_Jane, T_Doe, T_payday, "500", "ontario")
    \/ W_submit(2, T_Jane, T_Roe, T_payday, "300", "ontario")
    \/ \E t \in Threads : W_poll(t)
    \/ \E t \in Threads : A_read(t)
    \/ \E t \in Threads : A_open(t)
    \/ \E t \in Threads : A_dump(t)
    \/ \E d \in Drains : D_start(d)
    \/ \E d \in Drains : D_lookup(d)
    \/ \E d \in Drains, io_ok \in BOOLEAN : D_writeback(d, io_ok)

SpecQueue == Init /\ [][NextQueue]_vars

\* a step that reads pending_queue.json
ReadsQueue ==
    \/ \E t \in Threads : web[t].pc = "enqueue" /\ web'[t].pc = "q_open"
    \/ \E d \in Drains : drain[d].pc = "idle" /\ drain'[d].cycles = drain[d].cycles + 1

(* C6: no reader of the pending-queue file finds it partially written.       *)
C6_NoPartialRead == [][ReadsQueue => queueFile.st # "partial"]_vars

(* C7: at most one drain cycle is between its read of the queue and its      *)
(* write-back.                                                               *)
C7_OneDrainAtATime == Cardinality({d \in Drains : drain[d].pc # "idle"}) <= 1

-----------------------------------------------------------------------------
(* Sequential upserts: one request thread, no drain *)

FirstNames == {T_Jane, T_JANE_sp}
LastNames == {T_Doe, T_Roe}
LoanTypes == {T_payday, T_Payday}
Amounts == {"500", "300"}

InitUpsert ==
    /\ now = 0
    /\ log = <<>>
    /\ queueFile \in {FileMissing,
                      FileOk(<<PendingItem(T_JANE_sp, T_Roe, T_Payday, "300", 0)>>)}
    /\ ledgerFile = FileMissing
    /\ lock = "free"
    /\ web = [t \in Threads |-> WebIdle]
    /\ drain = [d \in Drains |-> DrainIdle]
    /\ probe = NoProbe

NextUpsert ==
    \/ Tick
    \/ \E f \in FirstNames, l \in LastNames, lt \in LoanTypes, a \in Amounts :
           W_submit(1, f, l, lt, a, "ontario")
    \/ W_poll(1)
    \/ A_read(1)
    \/ A_open(1)
    \/ A_dump(1)

SpecUpsert == InitUpsert /\ [][NextUpsert]_vars

\* the step that ends an upsert
EndsUpsert(t) == web[t].pc = "q_dump" /\ web'[t].pc = "idle"

(* C5: after sequential upserts from a queue without duplicate keys the      *)
(* queue holds at most one entry per case-insensitive (first_name,           *)
(* last_name, loan_type), and the entry of the key just upserted carries     *)
(* that upsert's amount and timestamp; the entries of other keys stay.       *)
C5_UpsertOnePerKey ==
    /\ [](queueFile.st = "ok" =>
            \A i, j \in 1..Len(Queue) :
                i # j => QueueKey(Queue[i]) # QueueKey(Queue[j]))
    /\ [][\A t \in Threads :
            EndsUpsert(t) =>
                LET item == web[t].item
                    after == queueFile'.items IN
                /\ \E k \in 1..Len(after) : QueueKey(after[k]) = QueueKey(item)
                /\ \A k \in 1..Len(after) :
                       QueueKey(after[k]) = QueueKey(item) =>
                           /\ after[k].loan_amount = item.loan_amount
                           /\ after[k].timestamp = item.timestamp
                /\ web'[t].item = item]_vars

\* an upsert has refreshed the first of two entries, later than the second
\* entry was written
C5_Witness ==
    /\ queueFile.st = "ok"
    /\ Len(Queue) = 2
    /\ web[1].resp = 202
    /\ Queue[1] = web[1].item
    /\ Queue[1].timestamp > Queue[2].timestamp

-----------------------------------------------------------------------------
(* The lookups on every log the handlers can write *)

WideNotices ==
    {<<g, n, s>> : g \in {Str(T_G1), Str(T_G2), Missing},
                   n \in {Str(T_JaneMDoe), Str(T_JANEROE)},
                   s \in {Str(T_verified), Str(T_Verified), Str(T_pending)}}

\* forwarded values that are not what the webhook writes
ForwardedData ==
    {LogArray, LogObject(Str(T_G1), Null, Str(T_verified)),
     LogObject(Str(T_G2), Str(T_JaneMDoe), Null)}

NextLookup ==
    \/ \E n \in WideNotices : receive_inverite_notification(n[1], n[2], n[3])
    \/ \E data \in ForwardedData : local_notification(data)
    \/ \E f \in {T_Jane}, l \in LastNames : LookupCall(f, l)

SpecLookup == Init /\ [][NextLookup]_vars

\* the entries of the log that name the applicant and are verified, as the
\* specification words it: status equals "verified"
SpecMatches(lines, first, last) ==
    {k \in 1..Len(lines) :
        /\ lines[k].json = "object"
        /\ lines[k].name.t = "str"
        /\ lines[k].status.t = "str"
        /\ Contains(Lower(first), Lower(lines[k].name.s))
        /\ Contains(Lower(last), Lower(lines[k].name.s))
        /\ lines[k].status.s = T_verified}

LookupResultOk(r, lines, first, last) ==
    /\ r.exc = "none"
    /\ IF SpecMatches(lines, first, last) = {} THEN r.val = Null
       ELSE \E k \in SpecMatches(lines, first, last) : r.val = Get(lines[k].guid)

(* C9: for every log and every name a lookup returns the id of a recorded    *)
(* entry that names the applicant with status "verified" if there is one,    *)
(* and nothing if there is none.                                             *)
C9_LookupFindsVerified ==
    probe.calls > 0 =>
        /\ LookupResultOk(probe.by_name, probe.lines, probe.first, probe.last)
        /\ LookupResultOk(probe.in_notifications, probe.lines, probe.first, probe.last)

\* the ids of the matching verified entries
MatchIds(lines, first, last) ==
    {Get(lines[k].guid) : k \in SpecMatches(lines, first, last)}

LastMatch(lines, first, last) ==
    CHOOSE k \in SpecMatches(lines, first, last) :
        \A m \in SpecMatches(lines, first, last) : m <= k

(* C10: of several verified entries that match the applicant with different  *)
(* ids, the lookup returns the id of the most recently recorded one.         *)
C10_MostRecentWins ==
    (probe.calls > 0 /\ Cardinality(MatchIds(probe.lines, probe.first, probe.last)) > 1)
        => /\ probe.by_name.val =
                  Get(probe.lines[LastMatch(probe.lines, probe.first, probe.last)].guid)
           /\ probe.in_notifications.val =
                  Get(probe.lines[LastMatch(probe.lines, probe.first, probe.last)].guid)

-----------------------------------------------------------------------------
(* Malformed log lines *)

\* a line that is a usable event record: an object whose name and status are text
Usable(line) ==
    /\ line.json = "object"
    /\ Get(line.name).t = "str"
    /\ Get(line.status).t = "str"

\* the log without the lines that are not usable event records
UsableLines(lines) == SelectSeq(lines, Usable)

(* C11: a lookup never fails because of a malformed log line: it gives what  *)
(* the same lookup gives on the log without its unusable lines.              *)
C11_MalformedLinesSkipped ==
    probe.calls > 0 =>
        /\ probe.by_name.exc = "none"
        /\ probe.in_notifications.exc = "none"
        /\ probe.by_name =
               find_guid_by_name(UsableLines(probe.lines), probe.first, probe.last)
        /\ probe.in_notifications =
               find_guid_in_notifications(UsableLines(probe.lines), probe.first,
                                          probe.last)

-----------------------------------------------------------------------------
(* The notice handlers as request threads.  A request body is written like a *)
(* log line: a JSON object with its id, name and status, a JSON value that   *)
(* is no object (LogArray), or text that is not JSON (LogInvalid).           *)

(* receive_inverite_notification lines 47-66: the entry the webhook builds.  *)
(* A body that is not JSON reads as {}; on a JSON value that is no object    *)
(* data.get raises.                                                          *)
webhook_entry(data) ==
    IF data.json = "array" THEN Raise("AttributeError")
    ELSE LET d == IF data.json = "invalid" THEN LogObject(Missing, Missing, Missing)
                  ELSE data IN
         Return(LogObject(Get(d.guid), OrEmpty(Get(d.name)),
                          Str(Strip(OrEmpty(Get(d.status)).s))))

\* lines 46-66 and 89-92: read and map the payload; an exception is answered 200
N_receive(t, data) ==
    /\ web[t].pc = "idle"
    /\ LET r == webhook_entry(data) IN
       web' = [web EXCEPT ![t] =
                 IF r.exc # "none"
                 THEN [WebIdle EXCEPT !.resp = 200, !.ack = r.exc]
                 ELSE [WebIdle EXCEPT !.pc = "n_log", !.buf = <<r.val>>]]
    /\ UNCHANGED <<now, log, queueFile, ledgerFile, lock, drain, probe>>

\* lines 68-77: append the line to the log; a failed write is answered 200
N_log(t, io_ok) ==
    /\ web[t].pc = "n_log"
    /\ Len(log) < MaxLog
    /\ log' = IF io_ok THEN json_lines_write(log, web[t].buf[1]) ELSE log
    /\ web' = [web EXCEPT ![t] =
                 IF io_ok THEN [@ EXCEPT !.pc = "n_forward"]
                 ELSE [WebIdle EXCEPT !.resp = 200, !.ack = "OSError"]]
    /\ UNCHANGED <<now, queueFile, ledgerFile, lock, drain, probe>>

\* lines 80-87: forward the entry; a failed forward is logged as a warning
N_forward(t, fwd_ok) ==
    /\ web[t].pc = "n_forward"
    /\ web' = [web EXCEPT ![t] =
                 [WebIdle EXCEPT !.resp = 200, !.ack = "logged", !.buf = web[t].buf]]
    /\ UNCHANGED <<now, log, queueFile, ledgerFile, lock, drain, probe>>

\* local_notification line 102: get_json(force=True) raises on text that is
\* not JSON, which is answered 400
L_receive(t, data) ==
    /\ web[t].pc = "idle"
    /\ web' = [web EXCEPT ![t] =
                 IF data.json = "invalid"
                 THEN [WebIdle EXCEPT !.resp = 400, !.ack = "BadRequest"]
                 ELSE [WebIdle EXCEPT !.pc = "l_log", !.buf = <<data>>]]
    /\ UNCHANGED <<now, log, queueFile, ledgerFile, lock, drain, probe>>

\* local_notification lines 103-109
L_log(t, io_ok) ==
    /\ web[t].pc = "l_log"
    /\ Len(log) < MaxLog
    /\ log' = IF io_ok THEN json_lines_write(log, web[t].buf[1]) ELSE log
    /\ web' = [web EXCEPT ![t] =
                 IF io_ok
                 THEN [WebIdle EXCEPT !.resp = 200, !.ack = "received",
                                      !.buf = web[t].buf]
                 ELSE [WebIdle EXCEPT !.resp = 400, !.ack = "OSError"]]
    /\ UNCHANGED <<now, queueFile, ledgerFile, lock, drain, probe>>

\* the bodies posted to the webhook
NoticePayloads ==
    {LogObject(Str(T_G1), Str(T_JaneMDoe), Str(T_verified)),
     LogObject(Missing, Str(T_JaneMDoe), Str(T_verified)),
     LogObject(Str(T_G2), Null, Missing),
     LogArray, LogInvalid}

\* the bodies posted to /local_notification
LocalPayloads ==
    {LogObject(Str(T_G2), Str(T_JANEROE), Str(T_verified)), LogArray, LogInvalid}

NextNotice ==
    \/ \E t \in Threads, data \in NoticePayloads : N_receive(t, data)
    \/ \E t \in Threads, io_ok \in BOOLEAN : N_log(t, io_ok)
    \/ \E t \in Threads, fwd_ok \in BOOLEAN : N_forward(t, fwd_ok)
    \/ \E t \in Threads, data \in LocalPayloads : L_receive(t, data)
    \/ \E t \in Threads, io_ok \in BOOLEAN : L_log(t, io_ok)

SpecNotice == Init /\ [][NextNotice]_vars

\* the lines of the log
LogLines == SeqToSet(log)

(* C12: every notice the webhook receives is appended to the log, whatever   *)
(* its id, name and status and also when the payload is no JSON object, and  *)
(* no entry the webhook records has status "verified" with a missing id.     *)
C12_EveryNoticeLogged ==
    \A t \in Threads :
        /\ web[t].ack # "AttributeError"
        /\ web[t].ack = "logged" =>
               /\ web[t].buf[1] \in LogLines
               /\ web[t].buf[1].status = Str(T_verified) => Truthy(web[t].buf[1].guid)

\* the step in which a handler's line reaches the log
WritesLine(t) == web[t].pc \in {"n_log", "l_log"} /\ web'[t].pc # web[t].pc

-----------------------------------------------------------------------------
(* All intake endpoints: the notice handlers on both threads, the loan form  *)
(* on the first                                                              *)

NextIntake ==
    \/ NextNotice
    \/ \E province \in {"ontario", "quebec"} :
           W_submit(1, T_Jane, T_Doe, T_payday, "500", province)
    \/ W_poll(1)
    \/ A_read(1)
    \/ A_open(1)
    \/ A_dump(1)
    \/ \E r \in FetchOutcomes, svc \in SvcOutcomes : W_fetch(1, r, svc)
    \/ W_save_read(1)
    \/ W_save_open(1)
    \/ W_save_dump(1)

SpecIntake == Init /\ [][NextIntake]_vars

(* C14: neither the verification webhook nor the loan-form endpoint answers  *)
(* a request with a server error because something downstream failed         *)
(* (logging, forwarding, lookup, report fetch, decision call): the webhook   *)
(* answers 200, the loan form 200, 202 or the 403 of a refused province.     *)
(* The 400 is an answer of /local_notification only.                         *)
C14_IntakeAlwaysAcks ==
    \A t \in Threads : web[t].resp \in {0, 200, 202, 403, 400}

-----------------------------------------------------------------------------
(* The drain on a queue of two applicants *)

TwoNotices ==
    {<<Str(T_G1), Str(T_JaneMDoe), Str(T_verified)>>,
     <<Str(T_G2), Str(T_JANEROE), Str(T_verified)>>,
     <<Str(T_G1), Str(T_JaneMDoe), Str(T_pending)>>}

InitDrain2 ==
    /\ now = 0
    /\ log = <<>>
    /\ queueFile = FileOk(<<PendingItem(T_Jane, T_Doe, T_payday, "500", 0),
                            PendingItem(T_Jane, T_Roe, T_payday, "300", 0)>>)
    /\ ledgerFile = FileMissing
    /\ lock = "free"
    /\ web = [t \in Threads |-> WebIdle]
    /\ drain = [d \in Drains |-> DrainIdle]
    /\ probe = NoProbe

NextDrain2 ==
    \/ \E n \in TwoNotices : receive_inverite_notification(n[1], n[2], n[3])
    \/ D_start(1)
    \/ D_lookup(1)
    \/ \E r \in FetchOutcomes, svc \in SvcOutcomes : D_analyze(1, r, svc)
    \/ \E io_ok \in BOOLEAN : D_writeback(1, io_ok)
    \/ D_crash(1)

SpecDrain2 == InitDrain2 /\ [][NextDrain2]_vars

\* the note of a matched applicant whose try block raised
Raised(note) == Truthy(note.guid) /\ (~note.fetched \/ note.kept)

(* C15: an exception during fetch, conversion or decision for one applicant  *)
(* does not end the cycle: the loop goes on to every later applicant, and    *)
(* the failing applicant is in the queue that is written back.               *)
C15_FailureIsolated ==
    /\ [](\A d \in Drains :
            drain[d].pc = "writeback" =>
                /\ Len(drain[d].seen) = Len(drain[d].queue)
                /\ \A k \in 1..Len(drain[d].seen) :
                       Raised(drain[d].seen[k]) =>
                           drain[d].queue[k] \in SeqToSet(drain[d].new_queue))
    /\ [][\A d \in Drains :
            /\ (drain[d].pc = "analyze" /\ drain'[d].pc = "idle")
                   => drain'[d].result = "killed"
            /\ (WritesBack(d) /\ drain'[d].out = "updated")
                   => queueFile'.items = drain[d].new_queue]_vars

\* the first applicant's report fetch failed and the second was still matched
\* and handled in the same cycle
C15_Witness ==
    \E d \in Drains :
        /\ drain[d].pc = "writeback"
        /\ Len(drain[d].seen) = 2
        /\ Truthy(drain[d].seen[1].guid)
        /\ ~drain[d].seen[1].fetched
        /\ Truthy(drain[d].seen[2].guid)
        /\ drain[d].seen[2].fetched

\* the note of an applicant without a matching event, or whose report fetch failed
Requeued(note) == ~Truthy(note.guid) \/ ~note.fetched

\* the entries of the queue read that the notes mark as kept, in the order read
KeptEntries(dr) ==
    LET idx == SelectSeq([k \in 1..Len(dr.seen) |-> k], LAMBDA k : dr.seen[k].kept)
    IN  [j \in 1..Len(idx) |-> dr.queue[idx[j]]]

(* C16: for an applicant without a matching event, or whose report fetch     *)
(* failed, the drain gains the ledger nothing and keeps the applicant; the   *)
(* kept entries are written back as they were read and in the order read.    *)
C16_RequeuedAsRead ==
    /\ [](\A d \in Drains :
            drain[d].pc = "writeback" =>
                /\ \A k \in 1..Len(drain[d].seen) :
                       Requeued(drain[d].seen[k]) =>
                           /\ drain[d].seen[k].kept
                           /\ drain[d].seen[k].gained = 0
                /\ drain[d].new_queue = KeptEntries(drain[d]))
    /\ [][\A d \in Drains :
            (WritesBack(d) /\ drain'[d].out = "updated")
                => /\ queueFile' = write_json_list_atomic(KeptEntries(drain[d]))
                   /\ ledgerFile' = ledgerFile]_vars

\* a cycle has kept both applicants, one unmatched and one whose fetch failed,
\* and has written them back
C16_Witness ==
    \E d \in Drains :
        /\ drain[d].out = "updated"
        /\ Len(drain[d].seen) = 2
        /\ ~Truthy(drain[d].seen[1].guid)
        /\ Truthy(drain[d].seen[2].guid)
        /\ ~drain[d].seen[2].fetched
        /\ Len(Queue) = 2

-----------------------------------------------------------------------------
(* The drain's recording step, called directly *)

(* process_pending lines 157-175 for a matched applicant and a decision: the *)
(* entry is appended through append_unique_decision, and the applicant is    *)
(* kept exactly when that raises.                                            *)
AppendCall(applicant, guid, decision) ==
    /\ LET r == RecordDecision(applicant, guid, decision, ledgerFile, lock, now) IN
       /\ Len(r.file.items) <= MaxLedger
       /\ ledgerFile' = r.file
       /\ probe' = [NoProbe EXCEPT !.append =
                       [calls |-> 1,
                        entry |-> DecisionEntry(Strip(applicant.first_name),
                                                Strip(applicant.last_name),
                                                guid, Missing, decision, now),
                        lk |-> lock, before |-> ledgerFile, after |-> r.file,
                        exc |-> r.exc, kept |-> r.exc # "none"]]
    /\ UNCHANGED <<now, log, queueFile, lock, web, drain>>

NextLedger ==
    \/ Tick
    \/ \E g \in {Str(T_G1), Str(T_G2)}, decision \in {"Approved", "Error"} :
           AppendCall(PendingItem(T_Jane, T_Doe, T_payday, "500", 0), g, decision)
    \/ ExtLockAcquire
    \/ ExtLockRelease

SpecLedger == Init /\ [][NextLedger]_vars

\* the recording step found the lock free and the entry's key in the ledger
KeyPresent(a) ==
    /\ a.calls > 0
    /\ a.lk = "free"
    /\ a.before.st = "ok"
    /\ \E k \in 1..Len(a.before.items) : LedgerKey(a.before.items[k]) = LedgerKey(a.entry)

(* C17: when the drain's append step finds a record with the same            *)
(* (guid, timestamp) in the ledger, it leaves the ledger as it is and the    *)
(* applicant is not kept in the queue.                                       *)
C17_DuplicateIsNoOp ==
    KeyPresent(probe.append) =>
        /\ probe.append.after = probe.append.before
        /\ ledgerFile = probe.append.before
        /\ probe.append.exc = "none"
        /\ ~probe.append.kept

\* the step has met the key of a record that carries another decision
C17_Witness ==
    /\ KeyPresent(probe.append)
    /\ \E k \in 1..Len(Ledger) :
           /\ LedgerKey(Ledger[k]) = LedgerKey(probe.append.entry)
           /\ Ledger[k].decision # probe.append.entry.decision

-----------------------------------------------------------------------------
(* Failures in the drain *)

(* C18: when the decision service fails for a matched applicant whose report *)
(* was fetched, the cycle appends a record with decision "Error" for that    *)
(* applicant and takes the applicant off the queue.                          *)
C18_ServiceFailureRecorded ==
    \A d \in Drains :
        drain[d].result = "returned" =>
            \A k \in 1..Len(drain[d].seen) :
                LET note == drain[d].seen[k] IN
                (Truthy(note.guid) /\ note.fetched /\ ~note.served) =>
                    /\ note.gained = 1
                    /\ ~note.kept
                    /\ \E j \in 1..Len(Ledger) :
                           /\ Ledger[j].guid = note.guid
                           /\ Ledger[j].decision = "Error"

(* C19: a cycle whose write-back of the queue failed does not end as a       *)
(* normal return of process_pending.                                         *)
C19_WriteBackFailureSurfaces ==
    \A d \in Drains :
        drain[d].out = "could_not_update" => drain[d].result # "returned"

-----------------------------------------------------------------------------
(* The drain on a pending-queue file with invalid content *)

InitBadQueue ==
    /\ now = 0
    /\ log = <<>>
    /\ queueFile \in {FilePartial, FileObject, FileOk(<<NotAnObject>>),
                      FileOk(<<PendingItem(T_Jane, T_Doe, T_payday, "500", 0),
                               NotAnObject>>)}
    /\ ledgerFile = FileMissing
    /\ lock = "free"
    /\ web = [t \in Threads |-> WebIdle]
    /\ drain = [d \in Drains |-> DrainIdle]
    /\ probe = NoProbe

NextBadQueue ==
    \/ \E n \in MainNotices : receive_inverite_notification(n[1], n[2], n[3])
    \/ D_start(1)
    \/ D_lookup(1)
    \/ \E r \in FetchOutcomes, svc \in SvcOutcomes : D_analyze(1, r, svc)

SpecBadQueue == InitBadQueue /\ [][NextBadQueue]_vars

\* text json.load rejects, a JSON value that is no list, or a list with an
\* element that is no applicant object
InvalidQueue(file) ==
    \/ file.st \in {"partial", "object"}
    \/ \E k \in 1..Len(file.items) : ~IsApplicant(file.items[k])

(* C20: on a pending-queue file with invalid content a drain takes the queue *)
(* as empty: it enters no loop, raises nothing, writes nothing to the ledger *)
(* and leaves the file as it is.                                             *)
C20_InvalidQueueIsEmpty ==
    /\ [](InvalidQueue(queueFile) =>
            /\ \A d \in Drains : drain[d].pc = "idle" /\ drain[d].result # "raised"
            /\ ledgerFile = FileMissing)
    /\ [][InvalidQueue(queueFile) => queueFile' = queueFile]_vars


-----------------------------------------------------------------------------
(* C30: the reply parser alone, over every short reply text *)

MaxMsg == 3

ReplyTokens == {FenceJson, Fence, Blank, Word, Open, Close, Scalar,
                Pair("decision", "Approved"), Pair("decision", "Maybe"),
                Pair("rationale", "text")}
Messages == {NoMessage} \cup UNION {[1..n -> ReplyTokens] : n \in 0..MaxMsg}

\* safe_parse_json(message), called on its own
ParseCall(message) ==
    /\ probe.parse.calls = 0
    /\ probe' = [NoProbe EXCEPT !.parse = [calls |-> 1, message |-> message,
                                            result |-> safe_parse_json(message)]]
    /\ UNCHANGED <<now, log, queueFile, ledgerFile, lock, web, drain>>

NextParse == \E m \in Messages : ParseCall(m)

SpecParse == Init /\ [][NextParse]_vars

\* C30: whatever the message, the value safe_parse_json returns is a dict
\* that has the keys decision, approved_amount and rationale.
C30_ParsedHasRequiredKeys ==
    probe.parse.calls > 0 =>
        /\ probe.parse.result.kind = "dict"
        /\ RequiredKeys \subseteq probe.parse.result.keys


-----------------------------------------------------------------------------
(* C21: the loan form with a verified applicant and a decision service that  *)
(* may reply anything *)

DecisionCategories == {"Approved", "Approved for Lower Amount", "Declined"}

ServiceReplies ==
    {Reply(d) : d \in DecisionCategories \cup {"Maybe", "approved"}}
    \cup {<<Open, Pair("rationale", "text"), Close>>, <<Word>>,
          <<FenceJson, Open, Pair("decision", "Maybe"), Close, Fence>>, ServiceDown}

InitVerified ==
    /\ now = 0
    /\ log = <<LogObject(Str(T_G1), Str(T_JaneMDoe), Str(T_verified))>>
    /\ queueFile = FileMissing
    /\ ledgerFile = FileMissing
    /\ lock = "free"
    /\ web = [t \in Threads |-> WebIdle]
    /\ drain = [d \in Drains |-> DrainIdle]
    /\ probe = NoProbe

NextDecision ==
    \/ Tick
    \/ \E province \in {"ontario", "quebec"} :
           W_submit(1, T_Jane, T_Doe, T_payday, "500", province)
    \/ W_poll(1)
    \/ \E r \in FetchOutcomes, svc \in ServiceReplies : W_fetch(1, r, svc)
    \/ W_save_read(1)
    \/ W_save_open(1)
    \/ W_save_dump(1)

SpecDecision == InitVerified /\ [][NextDecision]_vars

\* C21: the decision of every ledger record is Approved, Approved for Lower
\* Amount, Declined, or the error decision; any other output of the decision
\* service is recorded as the error decision.
C21_DecisionInCategories ==
    \A i \in 1..Len(Ledger) :
        Ledger[i].decision \in DecisionCategories \cup {"Error"}


-----------------------------------------------------------------------------
(* C24: two processes call append_unique_decision while another party may    *)
(* hold the lock file *)

NextFileLock ==
    \/ Tick
    \/ \E d \in Drains, decision \in {"Approved", "Error"} : K_call(d, Str(T_G1), decision)
    \/ \E d \in Drains, timed_out \in BOOLEAN : K_acquire(d, timed_out)
    \/ \E d \in Drains, io_ok \in BOOLEAN : K_section(d, io_ok)
    \/ \E d \in Drains : K_release(d)
    \/ ExtLockAcquire
    \/ ExtLockRelease

SpecFileLock == Init /\ [][NextFileLock]_vars

InSection(d) == drain[d].pc \in {"k_section", "k_release"}

-----------------------------------------------------------------------------
(* C22: drain cycles beside direct calls of the recording step *)

InitLockScope ==
    /\ now = 0
    /\ log = <<LogObject(Str(T_G1), Str(T_JaneMDoe), Str(T_verified))>>
    /\ queueFile = FileOk(<<PendingItem(T_Jane, T_Doe, T_payday, "500", 0)>>)
    /\ ledgerFile = FileMissing
    /\ lock = "free"
    /\ web = [t \in Threads |-> WebIdle]
    /\ drain = [d \in Drains |-> DrainIdle]
    /\ probe = NoProbe

NextLockScope ==
    \/ Tick
    \/ D_start(1)
    \/ D_lookup(1)
    \/ \E r \in FetchOutcomes, svc \in SvcOutcomes : D_analyze(1, r, svc)
    \/ \E io_ok \in BOOLEAN : D_writeback(1, io_ok)
    \/ \E d \in Drains, decision \in {"Approved", "Error"} : K_call(d, Str(T_G1), decision)
    \/ \E d \in Drains, timed_out \in BOOLEAN : K_acquire(d, timed_out)
    \/ \E d \in Drains, io_ok \in BOOLEAN : K_section(d, io_ok)
    \/ \E d \in Drains : K_release(d)

SpecLockScope == InitLockScope /\ [][NextLockScope]_vars

\* the try block of process d is at its report fetch and decision call
Fetching(d) == drain[d].pc = "analyze"

\* C22: a process whose report fetch or decision call is in progress does not
\* own the ledger's lock file; the lock is held only around the
\* read-modify-write of the ledger.
C22_NoLockDuringCalls ==
    \A d \in Drains : (Fetching(d) \/ drain[d].pc = "lookup") => lock # Holder(d)

\* a fetch is in progress in one process while another is inside the section
C22_Witness ==
    /\ Fetching(1)
    /\ drain[2].pc = "k_section"
    /\ lock = Holder(2)


-----------------------------------------------------------------------------
(* C23: two loan-form requests write the ledger side by side *)

NextLedgerRace ==
    \/ Tick
    \/ \E t \in Threads : W_submit(t, T_Jane, T_Doe, T_payday, "500", "ontario")
    \/ \E t \in Threads : W_poll(t)
    \/ \E t \in Threads, r \in FetchOutcomes, svc \in SvcOutcomes : W_fetch(t, r, svc)
    \/ \E t \in Threads : W_save_read(t)
    \/ \E t \in Threads : W_save_open(t)
    \/ \E t \in Threads : W_save_dump(t)

SpecLedgerRace == InitVerified /\ [][NextLedgerRace]_vars

\* C23: a write of the ledger keeps every record the ledger holds: the
\* content a writer puts in place of the file has all the records that are
\* in the file when the write begins.
C23_LedgerAppendOnly ==
    [][\A t \in Threads :
          (web[t].pc = "l_open" /\ web'[t].pc = "l_dump")
              => SeqToSet(Ledger) \subseteq SeqToSet(web[t].buf)]_vars


-----------------------------------------------------------------------------
(* C25: inverite_data.fetch_report, one request at a time *)

FetchRetries == 8

ReadyKeys == {"accounts", "bank_accounts", "identity", "request", "transactions",
              "summary", "applicant", "name"}

\* inverite_data._report_is_ready
report_is_ready(data) ==
    IF data.json # "object" THEN FALSE
    ELSE IF data.status \in {"processing", "pending"} THEN FALSE
    ELSE data.keys \cap ReadyKeys # {}

Bodies == {Body("object", "", {"accounts", "name"}),
           Body("object", "processing", {"status", "request"}),
           Body("object", "pending", {"status"}),
           Body("object", "", {"error"}),
           Body("array", "", {}),
           Body("invalid", "", {})}

Responses == {Response(st, b) : st \in {200, 202, 500}, b \in Bodies} \cup {NetworkError}

\* lines 119-129: the call, before the first pass of the loop
F_call(retries) ==
    /\ probe.fetch.pc = "idle"
    /\ probe' = [NoProbe EXCEPT !.fetch = [NoFetch EXCEPT !.pc = "loop",
                                                          !.retries = retries]]
    /\ UNCHANGED <<now, log, queueFile, ledgerFile, lock, web, drain>>

\* a pass that takes the body of a 202 as well
F_attempt_Accepting202(r) ==
    /\ probe.fetch.pc = "loop"
    /\ probe.fetch.attempt < probe.fetch.retries
    /\ LET ok == /\ r.kind = "response"
                 /\ r.status \in {200, 202}
                 /\ r.body.json # "invalid"
                 /\ report_is_ready(r.body)
       IN  probe' = [probe EXCEPT !.fetch =
                        [@ EXCEPT !.attempt = @ + 1, !.requests = @ + 1, !.last = r,
                                  !.pc = IF ok THEN "returned" ELSE "loop",
                                  !.data = IF ok THEN r.body ELSE @]]
    /\ UNCHANGED <<now, log, queueFile, ledgerFile, lock, web, drain>>

(* lines 129-155, one pass of the loop: the request; a 200 or 202 whose body *)
(* parses is looked at, and returned if the status is 200 and the report is  *)
(* ready; everything else (a body that does not parse, another status, a     *)
(* network error) sleeps and goes to the next pass.                          *)
F_attempt(r) ==
    /\ probe.fetch.pc = "loop"
    /\ probe.fetch.attempt < probe.fetch.retries
    /\ LET ok == /\ r.kind = "response"
                 /\ r.status \in {200, 202}
                 /\ r.body.json # "invalid"
                 /\ r.status = 200
                 /\ report_is_ready(r.body)
       IN  probe' = [probe EXCEPT !.fetch =
                        [@ EXCEPT !.attempt = @ + 1, !.requests = @ + 1, !.last = r,
                                  !.pc = IF ok THEN "returned" ELSE "loop",
                                  !.data = IF ok THEN r.body ELSE @]]
    /\ UNCHANGED <<now, log, queueFile, ledgerFile, lock, web, drain>>

\* line 157: the loop is over, RuntimeError
F_exhaust ==
    /\ probe.fetch.pc = "loop"
    /\ probe.fetch.attempt = probe.fetch.retries
    /\ probe' = [probe EXCEPT !.fetch.pc = "raised"]
    /\ UNCHANGED <<now, log, queueFile, ledgerFile, lock, web, drain>>

NextFetch ==
    \/ \E retries \in {0, 1, FetchRetries} : F_call(retries)
    \/ \E r \in Responses : F_attempt(r)
    \/ F_exhaust

SpecFetch == Init /\ [][NextFetch]_vars

\* C25: fetch_report makes at most `retries` requests; what it returns is the
\* body of a 200 response that passes the readiness check; it raises only
\* after `retries` requests; a network error or a response that is not
\* returned uses up one attempt and leaves the loop running.
C25_FetchBounded ==
    /\ [](LET f == probe.fetch IN
          /\ f.requests <= f.retries
          /\ f.pc = "returned" =>
                 /\ f.last.kind = "response"
                 /\ f.last.status = 200
                 /\ f.last.body.json = "object"
                 /\ f.last.body.status \notin {"processing", "pending"}
                 /\ f.data = f.last.body
          /\ f.pc = "raised" => f.requests = f.retries)
    /\ [][LET f == probe.fetch
              g == probe'.fetch
          IN  (g.requests # f.requests /\ (g.last.kind = "error" \/ g.last.status # 200))
                  => (g.requests = f.requests + 1 /\ g.pc = "loop")]_vars

\* the call has raised after eight requests, the last a 202 still processing
C25_Witness ==
    /\ probe.fetch.pc = "raised"
    /\ probe.fetch.requests = FetchRetries
    /\ probe.fetch.last.kind = "response"
    /\ probe.fetch.last.status = 202


-----------------------------------------------------------------------------
(* C26-C29: the extractor called on a report, and called again later *)

MaxTxns == 2

Day0 == DateText("ymd", 0, 0)
EdgeDay == DateText("ymd", 0 - WindowDays, 0)
OldDay == DateText("ymd", 0 - WindowDays - 1, 0)

TxChoices ==
    {Txn(Day0, Missing, Str(Txt.n50), Missing, Txt.MoneyMart, Txt.cat_payday, <<>>),
     Txn(EdgeDay, Null, Num(Txt.n50), Str(Txt.n1_200), Txt.MONEYMARTPAD, <<>>, <<Txt.flag_PAYDAY>>),
     Txn(Day0, Str(<<>>), Str(Txt.n50), Missing, Txt.Cash4You, Txt.cat_payday, <<>>),
     Txn(Day0, Str(Txt.n300), Missing, Missing, Txt.Cash4You, <<>>, <<Txt.flag_loan>>),
     Txn(OldDay, Missing, Str(Txt.n50), Missing, Txt.Cash4You, Txt.cat_payday, <<>>),
     Txn(Day0, Missing, Str(Txt.n20), Missing, Txt.CasinoRama, Txt.cat_entertainment, <<>>),
     Txn(Day0, Missing, Str(Txt.n150), Missing, Txt.Rent, Txt.cat_Gambling, <<>>),
     Txn(Day0, Str(Txt.abc), Missing, Missing, Txt.Rent, <<>>, <<>>),
     Txn(DateNumber, Str(Txt.abc), Missing, Missing, Txt.Rent, <<>>, <<>>),
     Txn(Day0, Missing, Str(Txt.n50), Missing, Txt.PAD, Txt.cat_payday, <<>>),
     Txn(Day0, Missing, Missing, Missing, Txt.Refund, Txt.cat_payday, <<>>),
     NotATxn}

TxLists == UNION {[1..n -> TxChoices] : n \in 0..MaxTxns}

\* gambling transactions with a debit that is a number, negative, or "nan"
Gambling(debit) ==
    Txn(Day0, Missing, Str(debit), Missing, Txt.CasinoRama, Txt.cat_Gambling, <<>>)

OddAmountLists ==
    {<<Gambling(Txt.nan)>>, <<Gambling(Txt.n50), Gambling(Txt.nan)>>,
     <<Gambling(Txt.neg50)>>, <<Gambling(Txt.neg50), Gambling(Txt.n20)>>}

Sources ==
    {ReportDict(c, <<Account(ts)>>) :
        c \in {NoDate, DateText("ymd_hms", 0, 0), DateText("other", 0, 0)},
        ts \in TxLists \cup OddAmountLists}
    \cup {ReportDict(NoDate, <<NotAnAccount>>),
          ReportDict(NoDate, <<>>),
          DictWithoutAccounts, NotADict}

\* extract_features(source, window_days) at the time of the clock
ExtractCall(source) ==
    /\ probe.features.calls = 0
    /\ probe' = [NoProbe EXCEPT !.features =
                    [NoFeatures EXCEPT !.calls = 1, !.source = source, !.at1 = now,
                                       !.first = extract_features(source, WindowDays, now)]]
    /\ UNCHANGED <<now, log, queueFile, ledgerFile, lock, web, drain>>

\* the same call once more
ExtractAgain ==
    /\ probe.features.calls = 1
    /\ probe' = [probe EXCEPT !.features =
                    [@ EXCEPT !.calls = 2, !.at2 = now,
                              !.second = extract_features(probe.features.source,
                                                           WindowDays, now)]]
    /\ UNCHANGED <<now, log, queueFile, ledgerFile, lock, web, drain>>

NextFeatures ==
    \/ Tick
    \/ \E source \in Sources : ExtractCall(source)
    \/ ExtractAgain

SpecFeatures == Init /\ [][NextFeatures]_vars

\* C26: two calls of the extractor on the same report with the same window,
\* at any two times, return the same feature vector.
C26_SameReportSameFeatures ==
    probe.features.calls = 2 => probe.features.first = probe.features.second

\* C27: the extractor does not raise, whatever is malformed in its input.
C27_ExtractorNeverRaises ==
    /\ probe.features.first.exc = "none"
    /\ probe.features.second.exc = "none"

RECURSIVE Concat(_)
Concat(ss) == IF ss = <<>> THEN <<>> ELSE Head(ss) \o Concat(Tail(ss))

\* the transactions of a source, as they are in the report
RawTxns(source) ==
    LET accs == SelectSeq(source.accounts, LAMBDA a : a.obj) IN
    SelectSeq(Concat([i \in 1..Len(accs) |-> accs[i].transactions]), LAMBDA t : t.obj)

HasGamblingCategory(source) ==
    \E i \in 1..Len(RawTxns(source)) :
        Contains(Lit.gambling, Lower(RawTxns(source)[i].category))

NoGamblingIn(v) ==
    /\ v.gambling_detected = FALSE
    /\ v.gambling_txn_count_30d = 0
    /\ v.gambling_total_amount_30d = F(0)
    /\ v.gambling_max_single_amount = F(0)

\* C28: for a report none of whose transactions has a gambling category the
\* extractor reports no gambling: not detected, count 0, total and maximum 0.
C28_NoCategoryNoGambling ==
    (/\ probe.features.calls > 0
     /\ probe.features.first.exc = "none"
     /\ ~HasGamblingCategory(probe.features.source))
        => NoGamblingIn(probe.features.first.val)

\* the end of the window of a call made at clock time at
WindowEnd(source, at) ==
    IF parse_dt(source.complete).some THEN parse_dt(source.complete).at ELSE at

\* a payday or loan transaction of direction debit dated inside the window
CountsAsLoan(t, source, at) ==
    /\ parse_dt(t.date).some
    /\ WindowEnd(source, at) - WindowDays * DayTicks <= parse_dt(t.date).at
    /\ parse_dt(t.date).at <= WindowEnd(source, at)
    /\ is_payday(t.flags, t.category)
    /\ direction(to_float(t.credit).val, to_float(t.debit).val, t.details) = "debit"

\* the normalized counterparties that have such a transaction
CountedLenders(source, at) ==
    {canonical_counterparty(RawTxns(source)[i].details) :
        i \in {k \in 1..Len(RawTxns(source)) : CountsAsLoan(RawTxns(source)[k], source, at)}}
    \ {<<>>}

-----------------------------------------------------------------------------
(* C31: replies that hold a well-formed object among other text *)

\* the pieces i..j of a reply are the text of one JSON object
IsObjectSpan(m, i, j) ==
    /\ i < j
    /\ m[i] = Open
    /\ m[j] = Close
    /\ \A k \in (i + 1)..(j - 1) : m[k].k \in {"pair", "space"}

ObjectStarts(m) == {i \in 1..Len(m) : \E j \in 1..Len(m) : IsObjectSpan(m, i, j)}

\* the first well-formed object of a reply that has one
FirstObject(m) ==
    LET i == CHOOSE a \in ObjectStarts(m) : \A b \in ObjectStarts(m) : a <= b
        j == CHOOSE b \in 1..Len(m) : IsObjectSpan(m, i, b)
    IN  LoadsObject(SubSeq(m, i, j))

\* C31: for a reply that holds a well-formed JSON object among other text
\* (fences, prose, further braces), safe_parse_json returns the first
\* well-formed object and not the error dict.
C31_FirstObjectReturned ==
    (/\ probe.parse.calls > 0
     /\ probe.parse.message # NoMessage
     /\ ObjectStarts(probe.parse.message) # {})
        => probe.parse.result = FirstObject(probe.parse.message)


-----------------------------------------------------------------------------
(* C32: the analyzer on its own, over pre-scan results and replies *)

\* what the pre-scan can report: no gambling line, or one to three lines with
\* a largest amount below, at or above the threshold
PreScans == {BaseG(0, 0)} \cup {BaseG(c, m) : c \in 1..3, m \in {0, 149, 150}}

ModelReplies ==
    {<<Open, Pair("decision", d), Pair("approved_amount", a), Pair("rationale", r), Close>> :
        d \in {"Approved", "Declined"}, a \in {JsonNumber, JsonNull},
        r \in {"text", JsonNull}}
    \cup {<<Open, Pair("decision", d), Close>> : d \in {"Approved", "Maybe", "Error"}}
    \cup {<<Open, Close>>, <<Word>>, <<Scalar>>}

\* analyze_bank_statement on a report text with this pre-scan result
AnalyzeCall(base_g, svc) ==
    /\ probe.analyze.calls = 0
    /\ probe' = [NoProbe EXCEPT !.analyze = [calls |-> 1, base_g |-> base_g, svc |-> svc,
                                              result |-> AnalyzeGuarded(base_g, svc)]]
    /\ UNCHANGED <<now, log, queueFile, ledgerFile, lock, web, drain>>

NextGuard == \E base_g \in PreScans, svc \in ModelReplies : AnalyzeCall(base_g, svc)

SpecGuard == Init /\ [][NextGuard]_vars

OverThreshold(base_g) ==
    /\ base_g.gambling_detected
    /\ (base_g.gambling_txn_count_30d >= 3 \/ base_g.gambling_max_single_amount >= 150)

\* C32: when the pre-scan reports gambling with three or more transactions or
\* a single amount of 150 or more, the analyzer returns Declined with a null
\* approved amount, whatever the model replied.
C32_GamblingDeclines ==
    (probe.analyze.calls > 0 /\ OverThreshold(probe.analyze.base_g))
        => /\ probe.analyze.result.decision = "Declined"
           /\ probe.analyze.result.approved_amount = JsonNull


-----------------------------------------------------------------------------
(* C33: what a finished loan-form request leaves behind *)

\* the request of thread t has passed the province check and is answered
PassedAndAnswered(t) == web[t].pc = "idle" /\ web[t].resp \in {200, 202, 500}

Names(e, first, last) == e.first_name = first /\ e.last_name = last

\* C33: once a submission that passed the province check is answered, the
\* applicant is in the pending queue or has a decision record in the ledger.
C33_SubmissionLeavesTrace ==
    PassedAndAnswered(1) =>
        \/ \E i \in 1..Len(Queue) : Names(Queue[i], T_Jane, T_Doe)
        \/ \E i \in 1..Len(Ledger) : Names(Ledger[i], T_Jane, T_Doe)


-----------------------------------------------------------------------------
(* C34: what a write-back takes out of the pending queue *)

\* applicant e is in the list q
InQueue(e, q) == \E i \in 1..Len(q) : Names(q[i], e.first_name, e.last_name)

\* the ledger f has a record with the names of e and a matched id
Recorded(e, f) ==
    \E i \in 1..Len(f) :
        /\ Names(f[i], Strip(e.first_name), Strip(e.last_name))
        /\ Truthy(f[i].guid)

\* C34: an applicant who is in the pending queue before a drain cycle writes
\* it back and is no longer in it afterwards has a decision record in the
\* ledger with the applicant's first name, last name and matched id.
C34_RemovedMeansRecorded ==
    [][\A d \in Drains :
          (WritesBack(d) /\ drain'[d].out = "updated") =>
              \A e \in SeqToSet(Queue) :
                  InQueue(e, queueFile'.items) \/ Recorded(e, ledgerFile'.items)]_vars


-----------------------------------------------------------------------------
(* C35: applicants with a blank name *)

T_blank == <<" ">>

\* the form's name fields as posted: the first name is spaces only, or the
\* last name is missing
PostedNames == {<<T_blank, T_Doe>>, <<T_Jane, <<>>>>}

NextBlankName ==
    \/ receive_inverite_notification(Str(T_G1), Str(T_JaneMDoe), Str(T_verified))
    \/ \E n \in PostedNames : W_submit(1, n[1], n[2], T_payday, "500", "ontario")
    \/ W_poll(1)
    \/ A_read(1)
    \/ A_open(1)
    \/ A_dump(1)
    \/ D_start(1)
    \/ D_lookup(1)
    \/ \E r \in FetchOutcomes, svc \in SvcOutcomes : D_analyze(1, r, svc)
    \/ D_writeback(1, TRUE)

SpecBlankName == Init /\ [][NextBlankName]_vars

\* the request thread t holds a matched id for its applicant
WebMatched(t) == web[t].pc = "fetch"

\* the drain d holds a matched id for the applicant it is looking at
DrainMatched(d) == drain[d].pc = "analyze"

\* C35: an applicant whose first or last name is empty after trimming is
\* never matched to a verification event, neither by the form handler nor by
\* a drain cycle.
C35_BlankNameNeverMatched ==
    /\ \A t \in Threads :
           WebMatched(t) => web[t].first # <<>> /\ web[t].last # <<>>
    /\ \A d \in Drains :
           DrainMatched(d) =>
               LET applicant == drain[d].queue[drain[d].i] IN
               /\ Strip(applicant.first_name) # <<>>
               /\ Strip(applicant.last_name) # <<>>


-----------------------------------------------------------------------------
(* C36: a matching verified entry without an id *)

\* every line of the log is a usable event record
AllUsable(lines) == \A k \in 1..Len(lines) : Usable(lines[k])

\* the matching verified entries that carry a non-empty id
MatchesWithId(lines, first, last) ==
    {k \in SpecMatches(lines, first, last) : Truthy(Get(lines[k].guid))}

\* C36: when the log holds at least one verified entry that matches the
\* applicant's name and has a non-empty id, the drain's lookup returns a
\* non-empty id, so that the drain treats the applicant as matched; a
\* matching verified entry without an id earlier in the log does not hide it.
C36_EntryWithIdFound ==
    (/\ probe.calls > 0
     /\ AllUsable(probe.lines)
     /\ MatchesWithId(probe.lines, probe.first, probe.last) # {})
        => /\ probe.in_notifications.exc = "none"
           /\ Truthy(probe.in_notifications.val)


-----------------------------------------------------------------------------
(* C37: the two lookups side by side *)

\* C37: on every log content, lines with a null or missing name or status
\* included, and for every first and last name, find_guid_by_name and
\* find_guid_in_notifications give the same outcome: the same id or both
\* nothing, and neither raises where the other returns.
C37_LookupsAgree ==
    probe.calls > 0 => probe.by_name = probe.in_notifications


-----------------------------------------------------------------------------
(* C38: two processes call append_unique_decision, and a process may be      *)
(* killed at any point of its call.  A running process goes on with its      *)
(* next step: the passes of the acquisition loop, the locked section and     *)
(* the release are straight-line code.                                       *)

NextLockLive ==
    \/ Tick
    \/ \E d \in Drains, decision \in {"Approved", "Error"} : K_call(d, Str(T_G1), decision)
    \/ \E d \in Drains, timed_out \in BOOLEAN : K_acquire(d, timed_out)
    \/ \E d \in Drains, io_ok \in BOOLEAN : K_section(d, io_ok)
    \/ \E d \in Drains : K_release(d)
    \/ \E d \in Drains : D_crash(d)

Running(d) ==
    /\ WF_vars(\E timed_out \in BOOLEAN : K_acquire(d, timed_out))
    /\ WF_vars(\E io_ok \in BOOLEAN : K_section(d, io_ok))
    /\ WF_vars(K_release(d))

SpecLockLive == Init /\ [][NextLockLive]_vars /\ \A d \in Drains : Running(d)

\* C38: the ledger's lock file never stays for good: whenever it exists,
\* also after its holder was killed inside the locked section, it is removed
\* again, so that a later call of append_unique_decision can acquire it and
\* commit instead of timing out on every attempt.
C38_LockFreedAgain == (lock # "free") ~> (lock = "free")


-----------------------------------------------------------------------------
(* C39: relations between the fields of a feature vector *)

\* a transaction of the report dated inside the window of a call made at at
InWindow(t, source, at) ==
    /\ parse_dt(t.date).some
    /\ WindowEnd(source, at) - WindowDays * DayTicks <= parse_dt(t.date).at
    /\ parse_dt(t.date).at <= WindowEnd(source, at)

WindowTxns(source, at) ==
    SelectSeq(RawTxns(source), LAMBDA t : InWindow(t, source, at))

\* the amount of a transaction: its credit or its debit, by its direction
AmountOf(t) ==
    IF direction(to_float(t.credit).val, to_float(t.debit).val, t.details) = "credit"
    THEN to_float(t.credit).val
    ELSE to_float(t.debit).val

RECURSIVE SumOfAmounts(_)
SumOfAmounts(ts) ==
    IF ts = <<>> THEN F(0)
    ELSE FAdd(AmountOf(Head(ts)), SumOfAmounts(Tail(ts)))

VectorCoherent(v) ==
    /\ v.gambling_detected <=> v.gambling_txn_count_30d > 0
    /\ FLe(v.gambling_max_single_amount, v.gambling_total_amount_30d)
    /\ v.existing_loans_count <= v.distinct_lenders_count
    /\ v.existing_loans_count <= v.loan_deductions_count

CountsCoherent(v, ts) ==
    /\ v.new_loans_received_count + v.loan_deductions_count =
           Len(SelectSeq(ts, LAMBDA t : is_payday(t.flags, t.category)))
    /\ FAdd(v.total_inflow_30d, v.total_outflow_30d) = SumOfAmounts(ts)

\* C39: every feature vector that extract_features_from_json returns has
\* gambling_detected exactly when gambling_txn_count > 0,
\* gambling_max_single_amount <= gambling_total_amount, existing_loans_count
\* <= distinct_lenders_count and <= loan_deductions_count,
\* new_loans_received_count + loan_deductions_count equal to the number of
\* payday transactions inside the window, and the amount of every
\* transaction inside the window in exactly one of total_inflow and
\* total_outflow.
C39_VectorCoherent ==
    LET f == probe.features IN
    (f.calls >= 1 /\ f.first.exc = "none" /\ ~f.first.val.fallback_used)
        => /\ VectorCoherent(f.first.val)
           /\ CountsCoherent(f.first.val, WindowTxns(f.source, f.at1))

====
